---- MODULE Spec2Model ----
(***************************************************************************)
(* A model of the reference transaction engine of git-ref                  *)
(* (src/git-ref/src/store/file/transaction.rs): a file store of loose      *)
(* references, their reflogs and their <name>.lock files, and transactions *)
(* that are opened, prepared (locked and staged), committed or dropped.    *)
(*                                                                         *)
(* Every file-system operation of prepare() and commit() is one step, so   *)
(* that two transactions against the same store interleave at exactly the  *)
(* places where two processes can.                                         *)
(*                                                                         *)
(* Beside it, the chunk size and thread limit heuristic of git-features    *)
(* (src/git-features/src/parallel/mod.rs), applied to bounded inputs, and  *)
(* the pack generator (src/gitoxide-core/src/pack/create.rs over           *)
(* src/git-pack/src/data/output/entry/from_counts_iter.rs): workers that   *)
(* turn chunks of counts into entries, the reducer that sums up their      *)
(* statistics, and the serializer that writes header, entries and trailer. *)
(***************************************************************************)
EXTENDS Integers, Sequences, FiniteSets, TLC

\* ------------------------------------------------------------------ bounds

\* Object ids are 0..MaxOid; 0 is the null id.
MaxOid == 2
\* Lock acquisition retries of git_lock::acquire::Fail (0 = Fail::Immediately).
MaxRetries == 1
\* I/O errors the environment may inject in one run.
MaxFaults == 1
\* How often prepare() is called on one transaction.
MaxPrepares == 2
\* Thread limits, available threads and logical cores are at most MaxThreads.
MaxThreads == 3
\* Item counts are 0..MaxItems, and a few around the count at which the
\* largest chunk size is reached.
MaxItems == 8
\* The pack generator is given at most MaxCounts counts.
MaxCounts == 3
\* A packet-line writer is written to at most MaxWrites times.
MaxWrites == 2
\* A request is written to at most MaxLines times.
MaxLines == 2
\* A reader is read at most MaxReadsAtEnd times when it has nothing more.
MaxReadsAtEnd == 2

\* The reference names of the store. HEAD is the one that starts symbolic.
Names == {"HEAD", "main"}
\* The transactions that may run against the store.
Txs == {1, 2}

\* ------------------------------------------------------------------ values

\* Option<Target>::None, Target::Peeled(oid), Target::Symbolic(name).
\* The same three shapes describe a decoded reference file.
None == [k |-> "None", oid |-> 0, name |-> ""]
Peeled(o) == [k |-> "Peeled", oid |-> o, name |-> ""]
Symbolic(n) == [k |-> "Symbolic", oid |-> 0, name |-> n]

\* What a file can hold besides a well-formed reference: nothing at all (no
\* file), bytes that do not decode, or the 20 raw bytes of an object id.
Absent == [k |-> "Absent", oid |-> 0, name |-> ""]
Garbage == [k |-> "Garbage", oid |-> 0, name |-> ""]
RawOid(o) == [k |-> "RawOid", oid |-> o, name |-> ""]
\* A lock file that was created and not written to.
Empty == [k |-> "Empty", oid |-> 0, name |-> ""]

\* Target::is_null: only a peeled null id is null.
IsNull(t) == t.k = "Peeled" /\ t.oid = 0

\* Edit::index
NoIndex == [k |-> "None", i |-> 0]
Parent(i) == [k |-> "Parent", i |-> i]
Child(i) == [k |-> "Child", i |-> i]

\* RefEdit { change: Change::Update { previous, new, .. }, name, deref }
Update(n, prev, new, d) ==
    [name |-> n, change |-> "Update", previous |-> prev, new |-> new,
     mode |-> "AndReference", deref |-> d]
\* RefEdit { change: Change::Delete { previous, mode }, name, deref }
Delete(n, prev, m, d) ==
    [name |-> n, change |-> "Delete", previous |-> prev, new |-> None,
     mode |-> m, deref |-> d]

\* Store::transaction: every RefEdit becomes an Edit without lock and index.
MakeEdit(update) ==
    [update |-> update, lock |-> FALSE, index |-> NoIndex]
transaction(edits) ==
    [i \in 1..Len(edits) |-> MakeEdit(edits[i])]

\* Results and errors. A Result is Ok(value) or Err(error).
Ok(v) == [ok |-> TRUE, val |-> v]
Err == [ok |-> FALSE, val |-> None]
Error(kind, n, expected, actual) ==
    [kind |-> kind, full_name |-> n, expected |-> expected, actual |-> actual]
NoError == Error("", "", None, None)

\* ------------------------------------------------------------------ state

VARIABLES
    refs,            \* the reference files: name -> content
    reflogs,         \* the names that have a reflog file
    lockfiles,       \* the <name>.lock files: name -> content, Absent if none
    updates,         \* Transaction::updates, per transaction
    state,           \* Transaction::state, per transaction
    lock_fail_mode,  \* Transaction::lock_fail_mode: the retries granted
    pc,              \* where each transaction's caller or method stands
    cursor,          \* the edit the running loop is at
    existing_ref,    \* lock_ref_and_apply_change's local of that name
    attempts,        \* lock acquisitions already retried for the current edit
    returned,        \* the error prepare() or commit() returned, NoError if none
    via_commit,      \* prepare() was called by commit() on an Open transaction
    faults,          \* I/O errors injected so far
    prepares,        \* history: the calls of prepare() on each transaction
    before,          \* history: the store when prepare() was called,
                     \* and the edits as pre_process left them
    call,            \* the arguments of a call of the heuristic, and what
                     \* num_cpus::get() returns on the machine
    result,          \* what the call returned, NotCalled before it
    counts,          \* the counts given to from_counts_iter: what becomes of each
    sink,            \* whether writes to `out` may fail
    chunks,          \* util::Chunks and the index of its enumerate()
    workers,         \* what each thread of the entry stage is doing
    channel,         \* the results of the threads, in the order they were sent
    total,           \* reduce::Statistics::total
    pending,         \* the chunks the serializer holds back
    expected,        \* the ChunkId the serializer writes next
    output,          \* what was written to `out`
    yielded_errors,  \* how many errors the serializer yielded to create()
    pack_pc,         \* where create() stands
    line_writer,     \* the packet-line Writer: `inner` and `binary`
    write_log,       \* history: the calls made on the writer and their results
    writer_pc,       \* whether the writer is open, has panicked or is closed
    connection,      \* the Connection: writer (what was written to it), path,
                     \* virtual_host, desired_version and mode
    server_response, \* the lines that the server sends
    line_provider,   \* Connection::line_provider: how far it has read
    response,        \* what handshake() returned
    request_writer,  \* the RequestWriter of the request, and its reader
    received,        \* history: what the readers gave to the caller
    conn_pc,         \* where the caller of the connection stands
    inversion,       \* a call of invert_parent_links: its locals, and how
                     \* often each edit was visited as a parent
    time_io,         \* a Time, what write_to wrote of it and what was read back
    log_io           \* reflog lines: the input, what is left and what was read

transaction_vars ==
    <<refs, reflogs, lockfiles, updates, state, lock_fail_mode, pc, cursor,
      existing_ref, attempts, returned, via_commit, faults, before, prepares>>

heuristic_vars == <<call, result>>

pack_vars ==
    <<counts, sink, chunks, workers, channel, total, pending, expected, output,
      yielded_errors, pack_pc>>

writer_vars == <<line_writer, write_log, writer_pc>>

connection_vars ==
    <<connection, server_response, line_provider, response, request_writer,
      received, conn_pc>>

wire_vars == <<writer_vars, connection_vars>>

function_vars == <<inversion, time_io, log_io>>

vars == <<transaction_vars, heuristic_vars, pack_vars, wire_vars, function_vars>>

store_vars == <<refs, reflogs, lockfiles>>

\* ------------------------------------------------------------------ helpers

Max(S) == CHOOSE x \in S : \A y \in S : y <= x
Min(S) == CHOOSE x \in S : \A y \in S : x <= y

\* The members of a set of indices as an ascending sequence.
RECURSIVE Ascending(_)
Ascending(S) ==
    IF S = {} THEN <<>> ELSE <<Min(S)>> \o Ascending(S \ {Min(S)})

\* ------------------------------------------------- the store and its locks

\* file::Reference::try_from_path on the bytes of a reference file: a peeled
\* id in hex or "ref: <name>" decodes; anything else is a decode error.
Decodes(content) == content.k \in {"Peeled", "Symbolic"}

\* What a reference file holds once a lock file with `content` was renamed
\* onto it: the bytes are moved as they are.
Persisted(content) ==
    IF content.k = "Empty" THEN Garbage ELSE content

\* git_lock: the lock file of `n` is created only if it does not exist
\* (O_EXCL).
CanAcquire(files, n) == files[n].k = "Absent"
\* git_lock::Marker::acquire_to_hold_resource / File::acquire_to_update_resource
Acquire(files, n) == [files EXCEPT ![n] = Empty]
\* Dropping a lock (Marker or File) without commit removes its lock file.
Release(files, held) ==
    [n \in Names |-> IF n \in held THEN Absent ELSE files[n]]

\* ----------------------------------------------- lock_ref_and_apply_change

\* (mutation) A decode error is kept like every other error.
ReadExistingRefKeepsDecodeError(content, io_error) ==
    IF io_error THEN Err
    ELSE IF content.k = "Absent" THEN Ok(None)
    ELSE IF Decodes(content) THEN Ok(content)
    ELSE Err

\* The local `existing_ref`: the reference as read and decoded, where a
\* decode error counts as "no reference" and any other error is kept.
ReadExistingRef(content, io_error) ==
    IF io_error THEN Err
    ELSE IF content.k = "Absent" THEN Ok(None)
    ELSE IF Decodes(content) THEN Ok(content)
    ELSE Ok(None)

\* (mutation) An expected target is never compared with the existing one.
DeleteCheckNoCompare(previous, existing) ==
    IF previous.k = "None" THEN ""
    ELSE IF existing.k = "None" THEN "DeleteReferenceMustExist"
    ELSE ""

\* (mutation) An expected null id is content with a reference that does not
\* exist.
DeleteCheckNullAbsentOk(previous, existing) ==
    IF previous.k = "None" THEN ""
    ELSE IF existing.k = "None"
         THEN (IF IsNull(previous) THEN "" ELSE "DeleteReferenceMustExist")
    ELSE IF ~IsNull(previous) /\ previous # existing
         THEN "DeleteReferenceOutOfDate"
         ELSE ""

\* Change::Delete: the match on (&previous, &existing_ref). The name of the
\* error to return, "" if there is none.
DeleteCheck(previous, existing) ==
    IF previous.k = "None" THEN ""
    ELSE IF existing.k = "None" THEN "DeleteReferenceMustExist"
    ELSE IF ~IsNull(previous) /\ previous # existing
         THEN "DeleteReferenceOutOfDate"
         ELSE ""

\* Change::Update: `if let Some(_expected_target) = previous { todo!(..) }`.
UpdateCheckPanics(previous) == previous.k # "None"

\* "Keep the previous value for the caller and ourselves."
KeepPrevious(previous, existing) ==
    IF existing.k # "None" THEN existing ELSE previous

\* What Change::Update writes into the lock file: the raw bytes of a peeled
\* id (oid.as_bytes()), or "ref: " and the name.
Staged(new) ==
    IF new.k = "Peeled" THEN RawOid(new.oid) ELSE new

\* ------------------------------------------------------ invert_parent_links

\* The inner `while let`: walk up the parent links from `idx`, pointing each
\* parent at the child the walk came from.
RECURSIVE walk_parents(_, _, _)
walk_parents(changes, idx, next_child_index) ==
    LET parent == changes[idx] IN
    IF parent.index.k = "Child"
    THEN [changes |-> changes, unreachable |-> TRUE]
    ELSE IF parent.index.k = "Parent"
    THEN walk_parents([changes EXCEPT ![idx].index = Child(next_child_index)],
                      parent.index.i, idx)
    ELSE [changes |-> changes, unreachable |-> FALSE]

\* The outer `loop`: the last edit before leaf_cursor_index that has a parent
\* link is the next leaf. Indices are 1-based here, 0-based in the source.
RECURSIVE invert_loop(_, _)
invert_loop(changes, leaf_cursor_index) ==
    LET leaves == {i \in 1..(leaf_cursor_index - 1) :
                      changes[i].index.k = "Parent"}
    IN  IF leaves = {}
        THEN [changes |-> changes, unreachable |-> FALSE]
        ELSE LET child_index == Max(leaves)
                 walked == walk_parents(changes, changes[child_index].index.i,
                                        child_index)
             IN  IF walked.unreachable THEN walked
                 ELSE invert_loop(walked.changes, child_index)

invert_parent_links(changes) ==
    IF Len(changes) = 0
    THEN [changes |-> changes, unreachable |-> FALSE]
    ELSE invert_loop(changes, Len(changes) + 1)

\* -------------------------------------------------------------- pre_process

\* How often the symbolic chain of an edit is followed before a cycle is
\* assumed.
MaxSplitRounds == 5

\* The edit a deref edit on a symbolic reference is split into: the same
\* change on the referent, still to be dereferenced, linked to its parent.
SplitOf(edit, parent_idx, referent) ==
    [update |-> [edit.update EXCEPT !.name = referent, !.deref = TRUE],
     lock |-> FALSE,
     index |-> Parent(parent_idx)]

\* One round per level of the chain: every deref edit from `first` on loses
\* its deref flag, and if its reference is symbolic, an edit for the referent
\* is pushed to the back.
RECURSIVE extend_with_splits(_, _, _, _)
extend_with_splits(edits, first, round, files) ==
    LET n == Len(edits)
        split == {i \in first..n :
                     edits[i].update.deref /\ files[edits[i].update.name].k = "Symbolic"}
        cleared == [i \in 1..n |->
                       IF i >= first
                       THEN [edits[i] EXCEPT !.update.deref = FALSE]
                       ELSE edits[i]]
        order == Ascending(split)
        new_edits == [j \in 1..Len(order) |->
                         SplitOf(cleared[order[j]], order[j],
                                 files[edits[order[j]].update.name].name)]
    IN  IF split = {} THEN [ok |-> TRUE, edits |-> cleared]
        ELSE IF round = MaxSplitRounds THEN [ok |-> FALSE, edits |-> cleared]
        ELSE extend_with_splits(cleared \o new_edits, n + 1, round + 1, files)

pre_process(edits, files) == extend_with_splits(edits, 1, 1, files)

\* ------------------------------------------------------------- transactions

Edits(t) == updates[t]
NumEdits(t) == Len(updates[t])
Current(t) == updates[t][cursor[t]]

\* The lock that a running method holds in a local variable: `lock` of
\* lock_ref_and_apply_change between acquisition and `change.lock = Some(lock)`,
\* and `lock` of commit()'s delete loop between `take()` and `drop(lock)`.
LocalLock(t) ==
    IF pc[t] \in {"apply", "rm_ref", "unlock"}
    THEN {Current(t).update.name} ELSE {}

\* (mutation) Only the local lock counts as owned: going out of scope, the
\* transaction leaves the locks stored in its edits behind.
HeldLocalOnly(t) == LocalLock(t)

\* (mutation) Only the locks stored in the edits count as owned: a lock that is
\* still in a local variable is leaked.
HeldEditsOnly(t) ==
    {updates[t][i].update.name : i \in {j \in 1..NumEdits(t) : updates[t][j].lock}}

\* The names whose lock the transaction owns: Edit::lock of every edit, and
\* the local.
Held(t) ==
    {updates[t][i].update.name : i \in {j \in 1..NumEdits(t) : updates[t][j].lock}}
        \cup LocalLock(t)

\* The edits of a transaction that went out of scope: its locks are dropped.
WithoutLocks(edits) ==
    [i \in 1..Len(edits) |-> [edits[i] EXCEPT !.lock = FALSE]]

\* The first edit at or after `from` whose change is `change`, Len + 1 if none.
NextOf(edits, from, change) ==
    Min({i \in from..Len(edits) : edits[i].update.change = change}
            \cup {Len(edits) + 1})

\* An I/O operation fails only while the environment has faults left.
IoErrors == IF faults < MaxFaults THEN {FALSE, TRUE} ELSE {FALSE}
Inject(io_error) == faults' = faults + (IF io_error THEN 1 ELSE 0)

\* (mutation) A method returns Err(error) and the transaction is leaked, its
\* locks with it.
ReturnErrLeaking(t, error) ==
    /\ pc' = [pc EXCEPT ![t] = "failed"]
    /\ returned' = [returned EXCEPT ![t] = error]
    /\ UNCHANGED <<lockfiles, updates>>

\* A method returns Err(error): the transaction it consumed goes out of scope,
\* which drops every lock it owns, the local one included.
ReturnErr(t, error) ==
    /\ pc' = [pc EXCEPT ![t] = "failed"]
    /\ returned' = [returned EXCEPT ![t] = error]
    /\ lockfiles' = Release(lockfiles, Held(t))
    /\ updates' = [updates EXCEPT ![t] = WithoutLocks(updates[t])]

\* A method panics (todo!, expect, assert!, unreachable!): unwinding drops the
\* local lock and the transaction like an early return does.
Unwind(t) ==
    /\ pc' = [pc EXCEPT ![t] = "panicked"]
    /\ lockfiles' = Release(lockfiles, Held(t))
    /\ updates' = [updates EXCEPT ![t] = WithoutLocks(updates[t])]
    /\ UNCHANGED returned

\* prepare() on an Open transaction, up to the loop over the edits:
\* pre_process, whose failure is returned as PreprocessingFailed.
CallPrepare(t, by_commit) ==
    /\ pc[t] = "open"
    /\ state[t] = "Open"
    /\ via_commit' = [via_commit EXCEPT ![t] = by_commit]
    /\ LET split == pre_process(updates[t], refs) IN
       /\ before' = [before EXCEPT ![t] = [refs |-> refs, reflogs |-> reflogs,
                                           lockfiles |-> lockfiles,
                                           edits |-> split.edits]]
       /\ IF ~split.ok
          THEN /\ pc' = [pc EXCEPT ![t] = "failed"]
               /\ returned' = [returned EXCEPT ![t] =
                                  Error("PreprocessingFailed", "", None, None)]
               /\ updates' = [updates EXCEPT ![t] = split.edits]
               /\ UNCHANGED cursor
          ELSE /\ updates' = [updates EXCEPT ![t] = split.edits]
               /\ pc' = [pc EXCEPT ![t] =
                            IF Len(split.edits) = 0 THEN "invert" ELSE "read"]
               /\ cursor' = [cursor EXCEPT ![t] = 1]
               /\ UNCHANGED returned
    /\ prepares' = [prepares EXCEPT ![t] = prepares[t] + 1]
    /\ UNCHANGED <<store_vars, state, lock_fail_mode, existing_ref, attempts, faults>>

Prepare(t) == CallPrepare(t, FALSE)

\* (mutation) commit() on an Open transaction enters its first loop at once.
CommitOpenUnprepared(t) ==
    /\ pc[t] = "open"
    /\ state[t] = "Open"
    /\ via_commit' = [via_commit EXCEPT ![t] = TRUE]
    /\ pc' = [pc EXCEPT ![t] = "prepared"]
    /\ state' = [state EXCEPT ![t] = "Prepared"]
    /\ UNCHANGED <<store_vars, updates, lock_fail_mode, cursor, existing_ref,
                   attempts, returned, faults, before, prepares>>

\* commit() on an Open transaction: `self.prepare()?.commit()`.
CommitOpen(t) == CallPrepare(t, TRUE)

\* lock_ref_and_apply_change, first part: the edit is asserted to have no
\* lock, and the reference is read and decoded.
ReadRef(t) ==
    /\ pc[t] = "read"
    /\ IF Current(t).lock
       THEN /\ Unwind(t)
            /\ UNCHANGED <<existing_ref, attempts, faults>>
       ELSE /\ \E io_error \in IoErrors :
                  /\ existing_ref' = [existing_ref EXCEPT ![t] =
                         ReadExistingRef(refs[Current(t).update.name], io_error)]
                  /\ Inject(io_error)
            /\ pc' = [pc EXCEPT ![t] = "acquire"]
            /\ attempts' = [attempts EXCEPT ![t] = 0]
            /\ UNCHANGED <<lockfiles, updates, returned>>
    /\ UNCHANGED <<refs, reflogs, state, lock_fail_mode, cursor, via_commit,
                   before, prepares>>

\* (mutation) The lock is taken whether or not its file exists already.
AcquireLockUnchecked(t) ==
    /\ pc[t] = "acquire"
    /\ lockfiles' = Acquire(lockfiles, Current(t).update.name)
    /\ pc' = [pc EXCEPT ![t] = "apply"]
    /\ UNCHANGED <<refs, reflogs, updates, state, lock_fail_mode, cursor,
                   existing_ref, attempts, returned, via_commit, faults, before, prepares>>

\* The lock file is created.
AcquireLock(t) ==
    /\ pc[t] = "acquire"
    /\ CanAcquire(lockfiles, Current(t).update.name)
    /\ lockfiles' = Acquire(lockfiles, Current(t).update.name)
    /\ pc' = [pc EXCEPT ![t] = "apply"]
    /\ UNCHANGED <<refs, reflogs, updates, state, lock_fail_mode, cursor,
                   existing_ref, attempts, returned, via_commit, faults, before, prepares>>

\* The lock file exists and the failure mode grants another attempt.
RetryLock(t) ==
    /\ pc[t] = "acquire"
    /\ ~CanAcquire(lockfiles, Current(t).update.name)
    /\ attempts[t] < lock_fail_mode[t]
    /\ attempts' = [attempts EXCEPT ![t] = attempts[t] + 1]
    /\ UNCHANGED <<store_vars, updates, state, lock_fail_mode, pc, cursor,
                   existing_ref, returned, via_commit, faults, before, prepares>>

\* The lock file exists and the failure mode is exhausted: `?` returns
\* Error::LockAcquire.
LockAcquireFails(t) ==
    /\ pc[t] = "acquire"
    /\ ~CanAcquire(lockfiles, Current(t).update.name)
    /\ attempts[t] >= lock_fail_mode[t]
    /\ ReturnErr(t, Error("LockAcquire", "", None, None))
    /\ UNCHANGED <<refs, reflogs, state, lock_fail_mode, cursor, existing_ref,
                   attempts, via_commit, faults, before, prepares>>

\* The error a failed DeleteCheck returns: the out-of-date error carries the
\* expected and the actual target.
DeleteError(check, edit, existing) ==
    IF check = "DeleteReferenceOutOfDate"
    THEN Error(check, edit.update.name, edit.update.previous, existing)
    ELSE Error(check, edit.update.name, None, None)

\* (mutation) The lock is not stored in the edit: it is dropped at the end of
\* lock_ref_and_apply_change.
AppliedAndUnlocked(t, previous) ==
    /\ updates' = [updates EXCEPT ![t][cursor[t]] =
                      [@ EXCEPT !.update.previous = previous]]
    /\ IF cursor[t] < NumEdits(t)
       THEN /\ pc' = [pc EXCEPT ![t] = "read"]
            /\ cursor' = [cursor EXCEPT ![t] = cursor[t] + 1]
       ELSE /\ pc' = [pc EXCEPT ![t] = "invert"]
            /\ UNCHANGED cursor
    /\ UNCHANGED returned

\* `change.lock = Some(lock); Ok(())`, and the loop of prepare() moves on.
LockedAndApplied(t, previous) ==
    /\ updates' = [updates EXCEPT ![t][cursor[t]] =
                      [@ EXCEPT !.update.previous = previous, !.lock = TRUE]]
    /\ IF cursor[t] < NumEdits(t)
       THEN /\ pc' = [pc EXCEPT ![t] = "read"]
            /\ cursor' = [cursor EXCEPT ![t] = cursor[t] + 1]
       ELSE /\ pc' = [pc EXCEPT ![t] = "invert"]
            /\ UNCHANGED cursor
    /\ UNCHANGED returned

\* lock_ref_and_apply_change, Change::Delete, with the lock acquired.
ApplyDelete(t) ==
    /\ pc[t] = "apply"
    /\ Current(t).update.change = "Delete"
    /\ LET edit == Current(t)
           check == DeleteCheck(edit.update.previous, existing_ref[t].val)
       IN  IF ~existing_ref[t].ok
           THEN /\ ReturnErr(t, Error("Io", "", None, None))
                /\ UNCHANGED cursor
           ELSE IF check # ""
           THEN /\ ReturnErr(t, DeleteError(check, edit, existing_ref[t].val))
                /\ UNCHANGED cursor
           ELSE /\ LockedAndApplied(t, KeepPrevious(edit.update.previous,
                                                    existing_ref[t].val))
                /\ UNCHANGED lockfiles
    /\ UNCHANGED <<refs, reflogs, state, lock_fail_mode, existing_ref, attempts,
                   via_commit, faults, before, prepares>>

\* lock_ref_and_apply_change, Change::Update, with the lock acquired.
ApplyUpdate(t) ==
    /\ pc[t] = "apply"
    /\ Current(t).update.change = "Update"
    /\ LET edit == Current(t) IN
       IF UpdateCheckPanics(edit.update.previous)
       THEN /\ Unwind(t)
            /\ UNCHANGED <<cursor, faults>>
       ELSE IF ~existing_ref[t].ok
       THEN /\ ReturnErr(t, Error("Io", "", None, None))
            /\ UNCHANGED <<cursor, faults>>
       ELSE \E io_error \in IoErrors :
              /\ Inject(io_error)
              /\ IF io_error
                 THEN /\ ReturnErr(t, Error("Io", "", None, None))
                      /\ UNCHANGED cursor
                 ELSE /\ lockfiles' = [lockfiles EXCEPT ![edit.update.name] =
                                          Staged(edit.update.new)]
                      /\ LockedAndApplied(t, KeepPrevious(edit.update.previous,
                                                          existing_ref[t].val))
    /\ UNCHANGED <<refs, reflogs, state, lock_fail_mode, existing_ref, attempts,
                   via_commit, before, prepares>>

\* prepare(), after the loop: invert_parent_links, and the state is Prepared.
Invert(t) ==
    /\ pc[t] = "invert"
    /\ LET inverted == invert_parent_links(updates[t]) IN
       IF inverted.unreachable
       THEN /\ Unwind(t)
            /\ UNCHANGED state
       ELSE /\ updates' = [updates EXCEPT ![t] = inverted.changes]
            /\ state' = [state EXCEPT ![t] = "Prepared"]
            /\ pc' = [pc EXCEPT ![t] = "prepared"]
            /\ UNCHANGED <<lockfiles, returned>>
    /\ UNCHANGED <<refs, reflogs, lock_fail_mode, cursor, existing_ref, attempts,
                   via_commit, faults, before, prepares>>

\* (mutation) prepare() on a Prepared transaction runs the loop over the edits
\* once more.
PrepareAgainRelocks(t) ==
    /\ pc[t] = "prepared"
    /\ state[t] = "Prepared"
    /\ ~via_commit[t]
    /\ prepares[t] < MaxPrepares
    /\ prepares' = [prepares EXCEPT ![t] = prepares[t] + 1]
    /\ pc' = [pc EXCEPT ![t] = "read"]
    /\ cursor' = [cursor EXCEPT ![t] = 1]
    /\ UNCHANGED <<store_vars, updates, state, lock_fail_mode, existing_ref,
                   attempts, returned, via_commit, faults, before>>

\* prepare() on a Prepared transaction: `State::Prepared => self`.
PrepareAgain(t) ==
    /\ pc[t] = "prepared"
    /\ state[t] = "Prepared"
    /\ ~via_commit[t]
    /\ prepares[t] < MaxPrepares
    /\ prepares' = [prepares EXCEPT ![t] = prepares[t] + 1]
    /\ UNCHANGED <<store_vars, updates, state, lock_fail_mode, pc, cursor,
                   existing_ref, attempts, returned, via_commit, faults, before>>

\* into_edits(), and the Ok value of commit(): the RefEdit of every edit.
into_edits(edits) == [i \in 1..Len(edits) |-> edits[i].update]

\* What the caller can read of the transaction's edits: prepare() and commit()
\* take `self` by value, so the transaction is the caller's only while none of
\* them runs or after prepare() gave it back; commit() gives the edits back in
\* Ok and nothing but the Error in Err.
CallerEdits(t) ==
    IF pc[t] \in {"open", "prepared", "committed"}
    THEN Ok(into_edits(updates[t]))
    ELSE Err

\* A Prepared transaction goes out of scope without commit().
DropPrepared(t) ==
    /\ pc[t] = "prepared"
    /\ ~via_commit[t]
    /\ pc' = [pc EXCEPT ![t] = "dropped"]
    /\ lockfiles' = Release(lockfiles, Held(t))
    /\ updates' = [updates EXCEPT ![t] = WithoutLocks(updates[t])]
    /\ UNCHANGED <<refs, reflogs, state, lock_fail_mode, cursor, existing_ref,
                   attempts, returned, via_commit, faults, before, prepares>>

\* ------------------------------------------------------------------- commit

\* (mutation) One loop over the edits, each dealt with where it stands.
NextCommitStepInListOrder(edits, pass, done) ==
    IF done + 1 <= Len(edits)
    THEN [pc |-> IF edits[done + 1].update.change = "Update"
                 THEN "commit_update" ELSE "rm_reflog",
          cursor |-> done + 1]
    ELSE [pc |-> "committed", cursor |-> done]

\* Where commit() stands once edit `done` of pass `pass` is dealt with (0: the
\* pass begins). The first loop visits the updates in list order, the second
\* loop the deletions; after the second loop the edits are returned.
NextCommitStep(edits, pass, done) ==
    LET next_update == NextOf(edits, done + 1, "Update")
        next_delete == NextOf(edits, IF pass = "updates" THEN 1 ELSE done + 1,
                              "Delete")
    IN  IF pass = "updates" /\ next_update <= Len(edits)
        THEN [pc |-> "commit_update", cursor |-> next_update]
        ELSE IF next_delete <= Len(edits)
        THEN [pc |-> "rm_reflog", cursor |-> next_delete]
        ELSE [pc |-> "committed", cursor |-> done]

GoTo(t, step) ==
    /\ pc' = [pc EXCEPT ![t] = step.pc]
    /\ cursor' = [cursor EXCEPT ![t] = step.cursor]

\* (mutation) Both files are removed whatever the mode.
RemovalsBoth(mode) == [rm_reflog |-> TRUE, rm_ref |-> TRUE]

\* `let (rm_reflog, rm_ref) = match mode { .. }`
Removals(mode) ==
    IF mode = "AndReference"
    THEN [rm_reflog |-> TRUE, rm_ref |-> TRUE]
    ELSE [rm_reflog |-> TRUE, rm_ref |-> FALSE]

\* commit() on a Prepared transaction enters the first loop. The loop asserts
\* of every edit that its deref flag is off.
BeginCommit(t) ==
    /\ pc[t] = "prepared"
    /\ state[t] = "Prepared"
    /\ IF \E i \in 1..NumEdits(t) : updates[t][i].update.deref
       THEN /\ Unwind(t)
            /\ UNCHANGED cursor
       ELSE /\ GoTo(t, NextCommitStep(updates[t], "updates", 0))
            /\ UNCHANGED <<lockfiles, updates, returned>>
    /\ UNCHANGED <<refs, reflogs, state, lock_fail_mode, existing_ref, attempts,
                   via_commit, faults, before, prepares>>

\* First loop, Change::Update: take the lock; a peeled target is todo!(); then
\* lock.commit() renames the lock file onto the reference.
CommitUpdate(t) ==
    /\ pc[t] = "commit_update"
    /\ LET edit == Current(t)
           n == edit.update.name
       IN  IF ~edit.lock \/ edit.update.new.k = "Peeled"
           THEN /\ Unwind(t)
                /\ UNCHANGED <<refs, cursor, faults>>
           ELSE \E io_error \in IoErrors :
                  /\ Inject(io_error)
                  /\ IF io_error
                     THEN /\ ReturnErr(t, Error("Io", "", None, None))
                          /\ UNCHANGED <<refs, cursor>>
                     ELSE /\ refs' = [refs EXCEPT ![n] = Persisted(lockfiles[n])]
                          /\ lockfiles' = [lockfiles EXCEPT ![n] = Absent]
                          /\ updates' = [updates EXCEPT ![t][cursor[t]].lock = FALSE]
                          /\ GoTo(t, NextCommitStep(updates[t], "updates", cursor[t]))
                          /\ UNCHANGED returned
    /\ UNCHANGED <<reflogs, state, lock_fail_mode, existing_ref, attempts,
                   via_commit, before, prepares>>

\* Second loop, Change::Delete: take the lock, then remove the reflog; a
\* reflog that does not exist is no error.
RemoveReflog(t) ==
    /\ pc[t] = "rm_reflog"
    /\ LET edit == Current(t)
           n == edit.update.name
           rm == Removals(edit.update.mode)
       IN  IF ~edit.lock
           THEN /\ Unwind(t)
                /\ UNCHANGED <<reflogs, cursor, faults>>
           ELSE \E io_error \in (IF rm.rm_reflog THEN IoErrors ELSE {FALSE}) :
                  /\ Inject(io_error)
                  /\ IF io_error
                     THEN /\ ReturnErr(t, Error("DeleteReflog", n, None, None))
                          /\ UNCHANGED <<reflogs, cursor>>
                     ELSE /\ reflogs' = IF rm.rm_reflog THEN reflogs \ {n} ELSE reflogs
                          /\ updates' = [updates EXCEPT ![t][cursor[t]].lock = FALSE]
                          /\ pc' = [pc EXCEPT ![t] = IF rm.rm_ref THEN "rm_ref" ELSE "unlock"]
                          /\ UNCHANGED <<lockfiles, cursor, returned>>
    /\ UNCHANGED <<refs, state, lock_fail_mode, existing_ref, attempts,
                   via_commit, before, prepares>>

\* Then remove the reference file; one that does not exist is no error.
RemoveRef(t) ==
    /\ pc[t] = "rm_ref"
    /\ LET n == Current(t).update.name IN
       \E io_error \in IoErrors :
          /\ Inject(io_error)
          /\ IF io_error
             THEN /\ ReturnErr(t, Error("DeleteReference", n, None, None))
                  /\ UNCHANGED refs
             ELSE /\ refs' = [refs EXCEPT ![n] = Absent]
                  /\ pc' = [pc EXCEPT ![t] = "unlock"]
                  /\ UNCHANGED <<lockfiles, updates, returned>>
    /\ UNCHANGED <<reflogs, state, lock_fail_mode, cursor, existing_ref, attempts,
                   via_commit, before, prepares>>

\* `drop(lock)`, and the second loop moves on; after it, Ok(edits).
Unlock(t) ==
    /\ pc[t] = "unlock"
    /\ lockfiles' = Release(lockfiles, {Current(t).update.name})
    /\ GoTo(t, NextCommitStep(updates[t], "deletes", cursor[t]))
    /\ UNCHANGED <<refs, reflogs, updates, state, lock_fail_mode, existing_ref,
                   attempts, returned, via_commit, faults, before, prepares>>

\* ---------------------------------------------------------------- heuristic

\* Option<usize>
Some(v) == [some |-> TRUE, v |-> v]
Nothing == [some |-> FALSE, v |-> 0]

\* `let (lower, upper) = (50, 1000);`
lower == 50
upper == 1000
desired_chunks_per_thread_at_least == 2

\* (mutation) A thread limit of zero is a limit of one thread.
available_threads_zero_is_one(thread_limit, available_threads, cores) ==
    IF thread_limit.some
    THEN (IF thread_limit.v = 0 THEN 1 ELSE thread_limit.v)
    ELSE (IF available_threads.some THEN available_threads.v ELSE cores)

\* The two `let available_threads = ..` of the heuristic: the threads given or
\* else the logical cores, replaced by a thread limit that is not zero.
available_threads_of(thread_limit, available_threads, cores) ==
    LET available == IF available_threads.some THEN available_threads.v ELSE cores
    IN  IF thread_limit.some
        THEN (IF thread_limit.v = 0 THEN available ELSE thread_limit.v)
        ELSE available

\* (mutation) Without a total, the chunk size is clamped for one thread too.
chunk_size_unknown_total_clamped(desired_chunk_size, available_threads) ==
    IF desired_chunk_size < lower THEN lower ELSE Min({desired_chunk_size, upper})

\* The `unwrap_or` branch: the chunk size when the total is not known.
chunk_size_unknown_total(desired_chunk_size, available_threads) ==
    IF available_threads = 1 THEN desired_chunk_size
    ELSE IF desired_chunk_size < lower THEN lower
    ELSE Min({desired_chunk_size, upper})

\* The `map` branch: chunk size and thread limit for a known total.
chunk_size_known_total(items, available_threads) ==
    LET chunk_size ==
            Min({Max({items \div (available_threads * desired_chunks_per_thread_at_least),
                      1}),
                 upper})
        num_chunks == items \div chunk_size
        thread_limit ==
            IF num_chunks <= available_threads
            THEN Max({num_chunks \div desired_chunks_per_thread_at_least, 1})
            ELSE available_threads
    IN  <<chunk_size, thread_limit>>

\* With the `parallel` feature: (chunk_size, Some(thread_limit), thread_limit).
optimize_chunk_size_and_thread_limit(desired_chunk_size, num_items, thread_limit, available_threads, cores) ==
    LET available == available_threads_of(thread_limit, available_threads, cores)
        chosen == IF num_items.some
                  THEN chunk_size_known_total(num_items.v, available)
                  ELSE <<chunk_size_unknown_total(desired_chunk_size, available),
                         available>>
    IN  <<chosen[1], Some(chosen[2]), chosen[2]>>

\* With the `parallel` feature: the logical cores, unless a limit that is not
\* zero is given.
num_threads(thread_limit, cores) ==
    IF thread_limit.some
    THEN (IF thread_limit.v = 0 THEN cores ELSE thread_limit.v)
    ELSE cores

\* Without the `parallel` feature: always 1.
num_threads_serial(thread_limit) == 1

\* Without the `parallel` feature: a no-op returning the input,
\* (desired_chunk_size, thread_limit, num_threads(thread_limit)).
optimize_chunk_size_and_thread_limit_serial(desired_chunk_size, num_items, thread_limit, available_threads) ==
    <<desired_chunk_size, thread_limit, num_threads_serial(thread_limit)>>

\* The `parallel` feature toggle of a build: set or not set.
Builds == BOOLEAN

NotCalled == [fn |-> "", val |-> <<>>]

\* The heuristic is called with the arguments of `call`.
Optimize ==
    /\ result = NotCalled
    /\ result' = [fn |-> "optimize_chunk_size_and_thread_limit",
                  val |-> optimize_chunk_size_and_thread_limit(
                              call.desired_chunk_size, call.num_items,
                              call.thread_limit, call.available_threads, call.cores)]
    /\ UNCHANGED call

\* num_threads is called with the thread limit of `call`.
NumThreads ==
    /\ result = NotCalled
    /\ result' = [fn |-> "num_threads",
                  val |-> <<num_threads(call.thread_limit, call.cores)>>]
    /\ UNCHANGED call

\* The chunk sizes a caller may wish for: around `lower` and `upper`.
DesiredChunkSizes == {1, lower - 1, lower, upper, upper + 1}

\* The totals a caller may know: small ones, and those at which chunks of
\* size `upper` and more would give every thread its share.
ItemCounts ==
    0..MaxItems \cup
        {upper * desired_chunks_per_thread_at_least * a + d :
            a \in 1..MaxThreads, d \in {0, upper}}

\* A machine has at least one logical core, and a caller that names the
\* available threads names at least one.
Calls ==
    [desired_chunk_size : DesiredChunkSizes,
     num_items : {Nothing} \cup {Some(n) : n \in ItemCounts},
     thread_limit : {Nothing} \cup {Some(l) : l \in 0..MaxThreads},
     available_threads : {Nothing} \cup {Some(a) : a \in 1..MaxThreads},
     cores : 1..MaxThreads]

\* The heuristic is not in use.
NoHeuristic ==
    /\ call = [desired_chunk_size |-> 1, num_items |-> Nothing,
               thread_limit |-> Nothing, available_threads |-> Nothing,
               cores |-> 1]
    /\ result = NotCalled

\* ----------------------------------------------------------- pack generator

\* What the entry stage finds for a count: an entry to copy from a pack, an
\* object to decode and recompress, or no object at all (find_existing fails).
CountKinds == {"copy", "decode", "missing"}

\* `let chunk_size = 200;` of create()
create_chunk_size == 200

\* Outcome
Outcome(decoded, copied) ==
    [decoded_and_recompressed_objects |-> decoded,
     objects_copied_from_pack |-> copied]

\* (mutation) The statistics of the last chunk replace the total.
aggregate_overwriting(self, stats) == stats

\* Outcome::aggregate
aggregate(self, stats) ==
    Outcome(self.decoded_and_recompressed_objects
                + stats.decoded_and_recompressed_objects,
            self.objects_copied_from_pack + stats.objects_copied_from_pack)

\* util::Chunks::new
Chunks_new(size, len) == [cursor |-> 0, size |-> size, len |-> len]

\* (mutation) The upper end of a range is not cut at the length.
Chunks_next_uncut(self) ==
    IF self.cursor >= self.len
    THEN [some |-> FALSE, lo |-> 0, hi |-> 0, chunks |-> self]
    ELSE [some |-> TRUE, lo |-> self.cursor, hi |-> self.cursor + self.size,
          chunks |-> [self EXCEPT !.cursor = self.cursor + self.size]]

\* util::Chunks::next: the range lo..hi of counts, counted from 0, hi excluded.
Chunks_next(self) ==
    IF self.cursor >= self.len
    THEN [some |-> FALSE, lo |-> 0, hi |-> 0, chunks |-> self]
    ELSE LET to == Min({self.cursor + self.size, self.len})
         IN  [some |-> TRUE, lo |-> self.cursor, hi |-> to,
              chunks |-> [self EXCEPT !.cursor = to]]

\* The number of chunks the iterator yields.
ChunksToCoverAll(c) == (c.len + c.size - 1) \div c.size

\* (mutation) The chunks are numbered from the last one down.
ChunkIdDescending(index, c) == ChunksToCoverAll(c) - 1 - index

\* `.enumerate()`: the ChunkId of the chunk that the iterator yields as its
\* index-th item.
ChunkId(index, c) == index

\* The results a thread sends: Ok((chunk_id, out, stats)) or Err(error).
ChunkOk(chunk_id, out, stats) ==
    [ok |-> TRUE, chunk_id |-> chunk_id, entries |-> out, stats |-> stats,
     error |-> ""]
ChunkErr(error) ==
    [ok |-> FALSE, chunk_id |-> 0, entries |-> <<>>, stats |-> Outcome(0, 0),
     error |-> error]

\* The counts of the range of kind `kind`.
CountOf(cs, lo, hi, kind) == Cardinality({i \in (lo + 1)..hi : cs[i] = kind})

\* (mutation) A count whose object is not found is left out of the chunk.
consume_skipping_missing(chunk_id, lo, hi, cs) ==
    LET found == {i \in (lo + 1)..hi : cs[i] # "missing"}
    IN  ChunkOk(chunk_id, Ascending(found),
                Outcome(CountOf(cs, lo, hi, "decode"), CountOf(cs, lo, hi, "copy")))

\* The closure that works off one chunk: an entry for every count in order,
\* or the error of the first count that has none.
consume(chunk_id, lo, hi, cs) ==
    IF \E i \in (lo + 1)..hi : cs[i] = "missing"
    THEN ChunkErr("FindExisting")
    ELSE ChunkOk(chunk_id, [j \in 1..(hi - lo) |-> lo + j],
                 Outcome(CountOf(cs, lo, hi, "decode"), CountOf(cs, lo, hi, "copy")))

\* reduce::Statistics::feed: the statistics of a chunk are added to the total,
\* an error is passed on.
feed(self, item) ==
    IF item.ok
    THEN [total |-> aggregate(self, item.stats),
          produce |-> [ok |-> TRUE, chunk_id |-> item.chunk_id,
                       entries |-> item.entries, error |-> ""]]
    ELSE [total |-> self,
          produce |-> [ok |-> FALSE, chunk_id |-> 0, entries |-> <<>>,
                       error |-> item.error]]

\* (mutation) `let _written = io_res;`: an error is dropped and the loop goes on.
on_io_res_ignoring(ok) == "running"

\* `while let Some(io_res) = output_iter.next() { let _written = io_res?; }`
on_io_res(ok) == IF ok THEN "running" ELSE "failed"

\* What is written to `out`.
Header(num_objects) == [k |-> "header", n |-> num_objects]
Entry(count) == [k |-> "entry", n |-> count]
Trailer == [k |-> "trailer", n |-> 0]

\* The header goes first, once.
WithHeader(out, num_objects) ==
    IF out = <<>> THEN <<Header(num_objects)>> ELSE out

Off == [st |-> "off", chunk_id |-> 0, lo |-> 0, hi |-> 0]
Idle == [st |-> "idle", chunk_id |-> 0, lo |-> 0, hi |-> 0]

\* A write to `out` fails only if the sink is broken.
WriteErrors == IF sink = "broken" THEN {FALSE, TRUE} ELSE {FALSE}

\* from_counts_iter: the heuristic is asked with the number of counts, the
\* counts are chunked and the threads are started.
FromCountsIter ==
    /\ pack_pc = "start"
    /\ \E parallel \in Builds :
       LET optimized == IF parallel
                        THEN optimize_chunk_size_and_thread_limit(
                                 call.desired_chunk_size, Some(Len(counts)),
                                 call.thread_limit, Nothing, call.cores)
                        ELSE optimize_chunk_size_and_thread_limit_serial(
                                 call.desired_chunk_size, Some(Len(counts)),
                                 call.thread_limit, Nothing)
       IN  /\ result' = [fn |-> "optimize_chunk_size_and_thread_limit",
                         val |-> optimized]
           /\ chunks' = [iter |-> Chunks_new(optimized[1], Len(counts)), index |-> 0]
           /\ workers' = [w \in 1..MaxThreads |->
                             IF w <= optimized[3] THEN Idle ELSE Off]
    /\ pack_pc' = "running"
    /\ UNCHANGED <<counts, sink, channel, total, pending, expected, output,
                   yielded_errors>>

\* The chunks taken in one run are counted up to MaxChunks, which is more than
\* an iterator that advances has to give.
MaxChunks == MaxCounts + 2

\* A thread takes the next chunk off the enumerated iterator.
WorkerTakes(w) ==
    /\ pack_pc = "running"
    /\ workers[w].st = "idle"
    /\ chunks.index < MaxChunks
    /\ LET next == Chunks_next(chunks.iter) IN
       /\ next.some
       /\ chunks' = [iter |-> next.chunks, index |-> chunks.index + 1]
       /\ workers' = [workers EXCEPT ![w] =
                         [st |-> "busy", chunk_id |-> ChunkId(chunks.index, chunks.iter),
                          lo |-> next.lo, hi |-> next.hi]]
    /\ UNCHANGED <<result, counts, sink, channel, total, pending, expected, output,
                   yielded_errors, pack_pc>>

\* A thread is done with its chunk and sends the result.
WorkerSends(w) ==
    /\ pack_pc = "running"
    /\ workers[w].st = "busy"
    /\ channel' = Append(channel, consume(workers[w].chunk_id, workers[w].lo,
                                          workers[w].hi, counts))
    /\ workers' = [workers EXCEPT ![w] = Idle]
    /\ UNCHANGED <<result, counts, sink, chunks, total, pending, expected, output,
                   yielded_errors, pack_pc>>

\* The serializer has the chunk it is to write next.
HasExpected == \E c \in pending : c.chunk_id = expected

\* The serializer, not having the chunk it is to write next, takes a result
\* from the entry stage, which feeds it to the reducer: a chunk is held back,
\* an error is yielded to create().
SerializerPulls ==
    /\ pack_pc = "running"
    /\ ~HasExpected
    /\ channel # <<>>
    /\ LET fed == feed(total, Head(channel)) IN
       /\ total' = fed.total
       /\ channel' = Tail(channel)
       /\ IF fed.produce.ok
          THEN /\ pending' = pending \cup {[chunk_id |-> fed.produce.chunk_id,
                                            entries |-> fed.produce.entries]}
               /\ UNCHANGED <<yielded_errors, pack_pc>>
          ELSE /\ yielded_errors' = yielded_errors + 1
               /\ pack_pc' = on_io_res(FALSE)
               /\ UNCHANGED pending
    /\ UNCHANGED <<counts, sink, chunks, workers, expected, output>>

\* The serializer writes the chunk whose turn it is, after the header if it is
\* the first, and yields the bytes written, or the error of the write.
SerializerWrites ==
    /\ pack_pc = "running"
    /\ HasExpected
    /\ LET chunk == CHOOSE c \in pending : c.chunk_id = expected IN
       \E io_error \in WriteErrors :
          IF io_error
          THEN /\ yielded_errors' = yielded_errors + 1
               /\ pack_pc' = on_io_res(FALSE)
               /\ UNCHANGED <<pending, expected, output>>
          ELSE /\ output' = WithHeader(output, Len(counts)) \o
                                [j \in 1..Len(chunk.entries) |-> Entry(chunk.entries[j])]
               /\ pending' = pending \ {chunk}
               /\ expected' = expected + 1
               /\ pack_pc' = on_io_res(TRUE)
               /\ UNCHANGED yielded_errors
    /\ UNCHANGED <<counts, sink, chunks, workers, channel, total>>

\* The entry stage has nothing more to give: every chunk was taken and every
\* result was received.
Exhausted ==
    /\ ~Chunks_next(chunks.iter).some
    /\ \A w \in 1..MaxThreads : workers[w].st # "busy"
    /\ channel = <<>>

\* At the end of its input the serializer writes the trailer, and the loop of
\* create() is over.
SerializerEnds ==
    /\ pack_pc = "running"
    /\ ~HasExpected
    /\ Exhausted
    /\ \E io_error \in WriteErrors :
          IF io_error
          THEN /\ yielded_errors' = yielded_errors + 1
               /\ pack_pc' = on_io_res(FALSE)
               /\ UNCHANGED output
          ELSE /\ output' = Append(WithHeader(output, Len(counts)), Trailer)
               /\ pack_pc' = "flush"
               /\ UNCHANGED yielded_errors
    /\ UNCHANGED <<result, counts, sink, chunks, workers, channel, total, pending,
                   expected>>

\* `output_iter.into_write().flush()?; Ok(())`
Flush ==
    /\ pack_pc = "flush"
    /\ \E io_error \in WriteErrors :
          pack_pc' = IF io_error THEN "flush_failed" ELSE "done"
    /\ UNCHANGED <<result, counts, sink, chunks, workers, channel, total, pending,
                   expected, output, yielded_errors>>

\* The sequences over S of length 0..n.
SeqsUpTo(S, n) == UNION {[1..k -> S] : k \in 0..n}

\* Nothing of the pack generator has run.
PackLocals ==
    /\ chunks = [iter |-> Chunks_new(1, 0), index |-> 0]
    /\ workers = [w \in 1..MaxThreads |-> Off]
    /\ channel = <<>>
    /\ total = Outcome(0, 0)
    /\ pending = {}
    /\ expected = 0
    /\ output = <<>>
    /\ yielded_errors = 0

\* The pack generator is not in use.
NoPack ==
    /\ counts = <<>>
    /\ sink = "ok"
    /\ pack_pc = "none"
    /\ PackLocals

\* ------------------------------------------------------- packet-line writer

\* Byte strings. A byte string is the sequence of its runs, a run being a byte
\* and the number of times it is repeated; no two neighbouring runs have the
\* same byte, so that equal byte strings are equal sequences.
Run(b, n) == [b |-> b, n |-> n]

\* `n` times the byte `b`.
Repeat(b, n) == IF n = 0 THEN <<>> ELSE <<Run(b, n)>>

\* The value bound to the name of the operator given with it.
With(value, In(_)) == In(value)

\* One byte string after the other.
concat(a, b) ==
    IF a = <<>> THEN b
    ELSE IF b = <<>> THEN a
    ELSE IF a[Len(a)].b = b[1].b
         THEN SubSeq(a, 1, Len(a) - 1)
                  \o <<Run(b[1].b, a[Len(a)].n + b[1].n)>> \o Tail(b)
         ELSE a \o b

\* The byte string of the bytes lo..hi of a literal.
RECURSIVE bytes_of(_, _, _)
bytes_of(literal, lo, hi) ==
    IF lo > hi THEN <<>>
    ELSE IF lo = hi THEN <<Run(literal[lo], 1)>>
    ELSE LET half == (lo + hi) \div 2 IN
         concat(bytes_of(literal, lo, half), bytes_of(literal, half + 1, hi))

\* The byte string of a literal, given byte by byte.
bytes(literal) == bytes_of(literal, 1, Len(literal))

\* The length of the runs lo..hi.
RECURSIVE len_of_runs(_, _, _)
len_of_runs(buf, lo, hi) ==
    IF lo > hi THEN 0
    ELSE IF lo = hi THEN buf[lo].n
    ELSE LET half == (lo + hi) \div 2 IN
         len_of_runs(buf, lo, half) + len_of_runs(buf, half + 1, hi)

\* [u8]::len
len(buf) == len_of_runs(buf, 1, Len(buf))

\* [u8]::is_empty
is_empty(buf) == buf = <<>>

\* How many of the runs lo..hi lie wholly within the first `mid` bytes of
\* them, how many of the bytes are left over after these, and whether these
\* are all of the runs.
RECURSIVE runs_within(_, _, _, _)
runs_within(buf, lo, hi, mid) ==
    IF lo > hi THEN [runs |-> 0, rest |-> mid, all |-> TRUE]
    ELSE IF lo = hi
    THEN IF buf[lo].n <= mid
         THEN [runs |-> 1, rest |-> mid - buf[lo].n, all |-> TRUE]
         ELSE [runs |-> 0, rest |-> mid, all |-> FALSE]
    ELSE With(runs_within(buf, lo, (lo + hi) \div 2, mid), LAMBDA left :
             IF ~left.all THEN left
             ELSE With(runs_within(buf, (lo + hi) \div 2 + 1, hi, left.rest),
                       LAMBDA right :
                           [runs |-> left.runs + right.runs,
                            rest |-> right.rest, all |-> right.all]))

\* How many runs lie wholly within the first `mid` bytes, and how many of the
\* bytes are left over after them.
whole_runs(buf, mid) == runs_within(buf, 1, Len(buf), mid)

\* &buf[..mid]
take(buf, mid) ==
    With(whole_runs(buf, mid), LAMBDA whole :
        IF whole.runs = Len(buf) \/ whole.rest = 0
        THEN SubSeq(buf, 1, whole.runs)
        ELSE Append(SubSeq(buf, 1, whole.runs),
                    Run(buf[whole.runs + 1].b, whole.rest)))

\* &buf[mid..]
skip(buf, mid) ==
    With(whole_runs(buf, mid), LAMBDA whole :
        IF whole.runs = Len(buf) THEN <<>>
        ELSE IF whole.rest = 0 THEN SubSeq(buf, whole.runs + 1, Len(buf))
        ELSE <<Run(buf[whole.runs + 1].b, buf[whole.runs + 1].n - whole.rest)>>
                 \o SubSeq(buf, whole.runs + 2, Len(buf)))

\* [u8]::split_at
split_at(buf, mid) == <<take(buf, mid), skip(buf, mid)>>

\* buf[i], counted from 0.
byte_at(buf, i) == buf[whole_runs(buf, i).runs + 1].b

\* [u8]::starts_with
starts_with(buf, prefix) ==
    len(buf) >= len(prefix) /\ take(buf, len(prefix)) = prefix

\* [u8]::ends_with
ends_with(buf, suffix) ==
    len(buf) >= len(suffix) /\ skip(buf, len(buf) - len(suffix)) = suffix

\* const U16_HEX_BYTES
U16_HEX_BYTES == 4
\* (mutation) A line may carry more than its length prefix can tell.
MAX_DATA_LEN_beyond_u16 == 65535 + 1

\* const MAX_DATA_LEN
MAX_DATA_LEN == 65516
\* const MAX_LINE_LEN
MAX_LINE_LEN == MAX_DATA_LEN + U16_HEX_BYTES

\* Some bytes.
LF == "LF"
NUL == "NUL"
SP == " "
HexDigits ==
    <<"0", "1", "2", "3", "4", "5", "6", "7", "8", "9", "a", "b", "c", "d", "e", "f">>

\* const FLUSH_LINE, DELIMITER_LINE, RESPONSE_END_LINE, ERR_PREFIX
FLUSH_LINE == bytes(<<"0", "0", "0", "0">>)
DELIMITER_LINE == bytes(<<"0", "0", "0", "1">>)
RESPONSE_END_LINE == bytes(<<"0", "0", "0", "2">>)
ERR_PREFIX == bytes(<<"E", "R", "R", SP>>)

\* encode::u16_to_hex: four lowercase hex digits, the most significant first.
u16_to_hex(value) ==
    bytes(<<HexDigits[((value \div 4096) % 16) + 1],
            HexDigits[((value \div 256) % 16) + 1],
            HexDigits[((value \div 16) % 16) + 1],
            HexDigits[(value % 16) + 1]>>)

\* The results of the encode functions and of Writer::write: Ok(n) with what
\* is then in `out`, or an error that left `out` as it was.
WriteOk(n, out) == [ok |-> TRUE, n |-> n, error |-> "", out |-> out]
WriteErr(error, out) == [ok |-> FALSE, n |-> 0, error |-> error, out |-> out]

\* encode: a data line is the length of the whole line in hex, the data and
\* the suffix; data that is empty, or too long together with its suffix, is
\* refused.
prefixed_and_suffixed_data_to_write(data, suffix, out) ==
    LET data_len == len(data) + len(suffix) IN
    IF data_len > MAX_DATA_LEN THEN WriteErr("DataLengthLimitExceeded", out)
    ELSE IF is_empty(data) THEN WriteErr("DataIsEmpty", out)
    ELSE WriteOk(data_len + U16_HEX_BYTES,
                 concat(out, concat(u16_to_hex(data_len + U16_HEX_BYTES),
                                    concat(data, suffix))))

\* encode::data_to_write
data_to_write(data, out) == prefixed_and_suffixed_data_to_write(data, <<>>, out)

\* encode::text_to_write
text_to_write(data, out) ==
    prefixed_and_suffixed_data_to_write(data, bytes(<<LF>>), out)

\* encode::flush_to_write
flush_to_write(out) == WriteOk(U16_HEX_BYTES, concat(out, FLUSH_LINE))

\* encode::delim_to_write
delim_to_write(out) == WriteOk(U16_HEX_BYTES, concat(out, DELIMITER_LINE))

\* (mutation) The mode is not looked at: every line is written as data.
encode_as_data(binary, data, out) == data_to_write(data, out)

\* `if self.binary { data_to_write(..) } else { text_to_write(..) }`
encode_by_mode(binary, data, out) ==
    IF binary THEN data_to_write(data, out) ELSE text_to_write(data, out)

\* (mutation) An empty buffer is not refused.
refuses_nothing(buf) == FALSE

\* `if buf.is_empty() { return Err(..) }`
refuses(buf) == is_empty(buf)

\* (mutation) A line takes one byte less than it may.
chunk_len_one_short(buf) == Min({len(buf), MAX_DATA_LEN - 1})

\* `buf.len().min(MAX_DATA_LEN)`
chunk_len(buf) == Min({len(buf), MAX_DATA_LEN})

\* The loop of Writer::write: line after line is written until nothing is
\* left of the buffer. An error of encode that is not one of I/O is
\* unreachable!(), a panic.
RECURSIVE write_loop(_, _, _, _)
write_loop(binary, buf, written, inner) ==
    IF is_empty(buf) THEN WriteOk(written, inner)
    ELSE LET parts == split_at(buf, chunk_len(buf))
             res == encode_by_mode(binary, parts[1], inner)
         IN  IF ~res.ok THEN WriteErr("panic", inner)
             ELSE write_loop(binary, parts[2],
                             written + res.n
                                 - (U16_HEX_BYTES + IF binary THEN 0 ELSE 1),
                             res.out)

\* Writer::write
Writer_write(self, buf) ==
    IF refuses(buf) THEN WriteErr("Other", self.inner)
    ELSE write_loop(self.binary, buf, 0, self.inner)

\* Writer::new
Writer_new(write) == [inner |-> write, binary |-> TRUE]

\* decode: the value of four hex digits, -1 if one of them is none.
HexValue(c) ==
    IF \E d \in 1..16 : HexDigits[d] = c
    THEN (CHOOSE d \in 1..16 : HexDigits[d] = c) - 1
    ELSE -1
hex_prefix(buf) ==
    IF len(buf) < U16_HEX_BYTES THEN -1
    ELSE LET d == [i \in 0..3 |-> HexValue(byte_at(buf, i))] IN
         IF \E i \in 0..3 : d[i] < 0 THEN -1
         ELSE d[0] * 4096 + d[1] * 256 + d[2] * 16 + d[3]

\* Packet lines as they are read.
FlushLine == [k |-> "Flush", data |-> <<>>]
DelimiterLine == [k |-> "Delimiter", data |-> <<>>]
ResponseEndLine == [k |-> "ResponseEnd", data |-> <<>>]
DataLine(data) == [k |-> "Data", data |-> data]
Invalid == [k |-> "Invalid", data |-> <<>>]

\* decode::streaming: the first line of a stream and what is left after it.
decode(stream) ==
    LET wanted == hex_prefix(stream)
        rest == skip(stream, U16_HEX_BYTES)
    IN  IF wanted = 0 THEN [line |-> FlushLine, rest |-> rest]
        ELSE IF wanted = 1 THEN [line |-> DelimiterLine, rest |-> rest]
        ELSE IF wanted = 2 THEN [line |-> ResponseEndLine, rest |-> rest]
        ELSE IF wanted <= U16_HEX_BYTES \/ wanted > MAX_LINE_LEN
                  \/ len(rest) < wanted - U16_HEX_BYTES
             THEN [line |-> Invalid, rest |-> stream]
        ELSE [line |-> DataLine(take(rest, wanted - U16_HEX_BYTES)),
              rest |-> skip(rest, wanted - U16_HEX_BYTES)]

\* The lines of a stream, one read after the other, up to its end or to the
\* first thing that is no line.
RECURSIVE decode_all(_)
decode_all(stream) ==
    IF stream = <<>> THEN <<>>
    ELSE LET first == decode(stream) IN
         IF first.line = Invalid THEN <<Invalid>>
         ELSE <<first.line>> \o decode_all(first.rest)

\* The buffers given to Writer::write: none, short ones, and ones about as
\* long as a line may be and longer.
hello == bytes(<<"h", "e", "l", "l", "o">>)
world == bytes(<<"w", "o", "r", "l", "d">>)
Payloads ==
    {<<>>, hello, world,
     Repeat("a", MAX_DATA_LEN - 1),
     Repeat("a", MAX_DATA_LEN),
     concat(Repeat("a", MAX_DATA_LEN), Repeat("b", 1)),
     concat(Repeat("a", MAX_DATA_LEN),
            concat(Repeat("b", MAX_DATA_LEN), Repeat("c", 1)))}

\* What a call did: write(buf) in a mode, or close().
WriteCall(binary, buf, res) ==
    [op |-> "write", binary |-> binary, buf |-> buf, ok |-> res.ok,
     n |-> res.n, error |-> res.error]
CloseCall ==
    [op |-> "close", binary |-> TRUE, buf |-> <<>>, ok |-> TRUE,
     n |-> 0, error |-> ""]

\* Writer::enable_text_mode
EnableTextMode ==
    /\ writer_pc = "open"
    /\ line_writer' = [line_writer EXCEPT !.binary = FALSE]
    /\ UNCHANGED <<write_log, writer_pc>>

\* Writer::enable_binary_mode
EnableBinaryMode ==
    /\ writer_pc = "open"
    /\ line_writer' = [line_writer EXCEPT !.binary = TRUE]
    /\ UNCHANGED <<write_log, writer_pc>>

\* Writer::write with any buffer.
WriterWrite ==
    /\ writer_pc = "open"
    /\ Len(write_log) < MaxWrites
    /\ \E buf \in Payloads :
          LET res == Writer_write(line_writer, buf) IN
          /\ line_writer' = [line_writer EXCEPT !.inner = res.out]
          /\ write_log' = Append(write_log, WriteCall(line_writer.binary, buf, res))
          /\ writer_pc' = IF res.error = "panic" THEN "panicked" ELSE "open"

\* Connection::close on the stream the writer writes to.
WriterClose ==
    /\ writer_pc = "open"
    /\ line_writer' = [line_writer EXCEPT !.inner = flush_to_write(@).out]
    /\ write_log' = Append(write_log, CloseCall)
    /\ writer_pc' = "closed"

\* No writer is in use.
NoWriter ==
    /\ line_writer = Writer_new(<<>>)
    /\ write_log = <<>>
    /\ writer_pc = "none"

\* --------------------------------------------------------------- connection

\* Option<T> of a value that is not a number: None, and Some(value).
NoneOf == <<>>
SomeOf(value) == <<value>>
is_some(option) == option # <<>>
is_none(option) == option = <<>>
unwrap(option) == option[1]

\* bstr::find_byte: the index of the first such byte, counted from 0, or -1.
find_byte(buf, b) ==
    LET found == {i \in 1..Len(buf) : buf[i].b = b} IN
    IF found = {} THEN -1 ELSE len_of_runs(buf, 1, Min(found) - 1)

\* format!("{}", n) of a number.
RECURSIVE decimal(_)
decimal(n) ==
    IF n < 10 THEN bytes(<<HexDigits[n + 1]>>)
    ELSE concat(decimal(n \div 10), bytes(<<HexDigits[(n % 10) + 1]>>))

\* Literals.
git_upload_pack ==
    bytes(<<"g", "i", "t", "-", "u", "p", "l", "o", "a", "d", "-",
            "p", "a", "c", "k">>)
foo_git == bytes(<<"/", "f", "o", "o", ".", "g", "i", "t">>)
example_org == bytes(<<"e", "x", "a", "m", "p", "l", "e", ".", "o", "r", "g">>)
host_eq == bytes(<<"h", "o", "s", "t", "=">>)
version_eq == bytes(<<"v", "e", "r", "s", "i", "o", "n", "=">>)
version_sp == bytes(<<"v", "e", "r", "s", "i", "o", "n", SP>>)
version_word == bytes(<<"v", "e", "r", "s", "i", "o", "n">>)
sp_1 == bytes(<<SP, "1">>)
sp_2 == bytes(<<SP, "2">>)
done == bytes(<<"d", "o", "n", "e">>)
daemon_port == 9418

\* Protocol as usize.
V1 == 1
V2 == 2

\* (mutation) The version is sent whatever it is.
version_is_sent_always(version) == TRUE

\* `if version != Protocol::V1`
version_is_sent(version) == version # V1

\* `if let Some((host, port)) = virtual_host { .. }`
host_part(virtual_host) ==
    IF is_none(virtual_host) THEN <<>>
    ELSE concat(host_eq,
         concat(unwrap(virtual_host)[1],
         concat(IF is_some(unwrap(virtual_host)[2])
                THEN concat(bytes(<<":">>), decimal(unwrap(unwrap(virtual_host)[2])))
                ELSE <<>>,
                bytes(<<NUL>>))))

\* git_url::expand_path::for_shell: of a path that begins with "/~" the
\* slash is left out, for the shell to expand the rest.
for_shell(path) ==
    IF starts_with(path, bytes(<<"/", "~">>)) THEN skip(path, 1) ELSE path

\* message::connect
connect(service, version, path, virtual_host) ==
    concat(service,
    concat(bytes(<<SP>>),
    concat(for_shell(path),
    concat(bytes(<<NUL>>),
    concat(host_part(virtual_host),
           IF version_is_sent(version)
           THEN concat(bytes(<<NUL>>),
                concat(version_eq, concat(decimal(version), bytes(<<NUL>>))))
           ELSE <<>>)))))

\* Borrowed::check_error: the rest of a data line that begins with "ERR ".
check_error_needs_payload(line) ==
    IF line.k = "Data" /\ len(line.data) > len(ERR_PREFIX)
           /\ take(line.data, len(ERR_PREFIX)) = ERR_PREFIX
    THEN SomeOf(skip(line.data, len(ERR_PREFIX)))
    ELSE NoneOf
check_error(line) ==
    IF line.k = "Data" /\ len(line.data) >= len(ERR_PREFIX)
           /\ take(line.data, len(ERR_PREFIX)) = ERR_PREFIX
    THEN SomeOf(skip(line.data, len(ERR_PREFIX)))
    ELSE NoneOf

\* Text::from: the line without its trailing newline, if it has one.
to_text(d) ==
    IF ends_with(d, bytes(<<LF>>)) THEN take(d, len(d) - 1) ELSE d

\* Provider::new: nothing was read, nothing is peeked, ERR lines are passed
\* on, and the input ends at each of the delimiters.
Provider_new(delimiters) ==
    [pos |-> 0, peek_buffer |-> NoneOf, fail_on_err |-> FALSE, is_done |-> FALSE,
     delimiters |-> delimiters]

\* What a read gives: a line, the end of the input, or an error.
Item(line) == [k |-> "line", data |-> line.data, of |-> line.k]
Eof == [k |-> "eof", data |-> <<>>, of |-> ""]
Failure(data) == [k |-> "error", data |-> data, of |-> ""]

\* Provider::read_line on the lines of the stream: the peeked line first; the
\* input ends at the end of the stream and at a delimiter, and with an error
\* at an ERR line if these are looked for; after that nothing more is read.
read_line(self, stream) ==
    IF self.is_done \/ (is_none(self.peek_buffer) /\ self.pos >= Len(stream))
    THEN [rd |-> [self EXCEPT !.is_done = TRUE], item |-> Eof]
    ELSE With(IF is_some(self.peek_buffer) THEN unwrap(self.peek_buffer)
              ELSE stream[self.pos + 1],
              LAMBDA line :
         LET read == [self EXCEPT !.pos = @ + 1, !.peek_buffer = NoneOf] IN
         IF line \in self.delimiters
         THEN [rd |-> [read EXCEPT !.is_done = TRUE], item |-> Eof]
         ELSE IF self.fail_on_err /\ is_some(check_error(line))
         THEN [rd |-> [read EXCEPT !.is_done = TRUE],
               item |-> Failure(unwrap(check_error(line)))]
         ELSE [rd |-> read, item |-> Item(line)])

\* Provider::peek_line: as read_line, but a line stays to be read.
peek_line(self, stream) ==
    With(read_line(self, stream), LAMBDA res :
        IF res.item.k = "line"
        THEN [rd |-> [self EXCEPT !.peek_buffer =
                         SomeOf([k |-> res.item.of, data |-> res.item.data])],
              item |-> res.item]
        ELSE res)

\* Provider::peek_buffer_replace_and_truncate
peek_buffer_replace_and_truncate(self, position, replace_with) ==
    [self EXCEPT !.peek_buffer =
        SomeOf(DataLine(concat(take(unwrap(@).data, position), bytes(<<replace_with>>))))]

\* Provider::reset
reset(self) == [self EXCEPT !.is_done = FALSE]

\* The results of the handshake: which protocol the first line made it take,
\* and what it returned.
NoResponse ==
    [state |-> "none", detected |-> 0, actual_protocol |-> 0,
     capabilities |-> <<>>, value_sep |-> "", refs |-> FALSE,
     error |-> "", payload |-> <<>>]
Detected(version, outcome) == [outcome EXCEPT !.detected = version]
HandshakeOk(protocol, capabilities, value_sep, with_refs) ==
    [NoResponse EXCEPT !.state = "ok", !.actual_protocol = protocol,
                       !.capabilities = capabilities, !.value_sep = value_sep,
                       !.refs = with_refs]
HandshakeErr(error, payload) ==
    [NoResponse EXCEPT !.state = "err", !.error = error, !.payload = payload]

\* (mutation) The delimiter stays in the line.
from_bytes_keeping_delimiter(line) ==
    With(find_byte(line, NUL), LAMBDA delimiter_pos :
        IF delimiter_pos < 0
        THEN [ok |-> FALSE, error |-> "MissingDelimitingNullByte"]
        ELSE IF delimiter_pos + 1 = len(line)
             THEN [ok |-> FALSE, error |-> "NoCapabilities"]
             ELSE [ok |-> TRUE, error |-> "",
                   capabilities |-> skip(line, delimiter_pos + 1),
                   delimiter_pos |-> delimiter_pos + 1])

\* Capabilities::from_bytes
from_bytes(line) ==
    With(find_byte(line, NUL), LAMBDA delimiter_pos :
        IF delimiter_pos < 0
        THEN [ok |-> FALSE, error |-> "MissingDelimitingNullByte"]
        ELSE IF delimiter_pos + 1 = len(line)
             THEN [ok |-> FALSE, error |-> "NoCapabilities"]
             ELSE [ok |-> TRUE, error |-> "",
                   capabilities |-> skip(line, delimiter_pos + 1),
                   delimiter_pos |-> delimiter_pos])

\* `.collect::<Result<Vec<_>, _>>()?.join("\n")` over the lines that are left.
RECURSIVE collect_lines(_, _, _)
collect_lines(rd, stream, joined) ==
    With(read_line(rd, stream), LAMBDA res :
        IF res.item.k = "eof"
        THEN [rd |-> res.rd, ok |-> TRUE, data |-> joined, payload |-> <<>>]
        ELSE IF res.item.k = "error"
        THEN [rd |-> res.rd, ok |-> FALSE, data |-> <<>>,
              payload |-> res.item.data]
        ELSE With(to_text(res.item.data), LAMBDA line :
                 collect_lines(res.rd, stream,
                     IF joined = <<>> THEN line
                     ELSE concat(joined, concat(bytes(<<LF>>), line)))))

\* Capabilities::from_lines over rd.as_read()
from_lines(rd, stream) ==
    With(read_line(rd, stream), LAMBDA first :
        IF first.item.k = "eof"
        THEN [rd |-> first.rd,
              outcome |-> HandshakeErr("MissingVersionLine", <<>>)]
        ELSE IF first.item.k = "error"
        THEN [rd |-> first.rd, outcome |-> HandshakeErr("Io", first.item.data)]
        ELSE With(to_text(first.item.data), LAMBDA version_line :
             With(find_byte(version_line, SP), LAMBDA space :
                 IF space < 0 \/ take(version_line, space) # version_word
                 THEN [rd |-> first.rd,
                       outcome |-> HandshakeErr("MalformattedVersionLine",
                                                version_line)]
                 ELSE With(skip(version_line, space), LAMBDA value :
                     IF value # sp_2
                     THEN [rd |-> first.rd,
                           outcome |-> HandshakeErr("UnsupportedVersion", value)]
                     ELSE With(collect_lines(first.rd, stream, <<>>),
                               LAMBDA lines :
                         [rd |-> lines.rd,
                          outcome |-> IF lines.ok
                                      THEN HandshakeOk(V2, lines.data, LF, FALSE)
                                      ELSE HandshakeErr("Io", lines.payload)])))))

\* (mutation) A version line that ends in " 2" is of V2, every other of V1.
detect_by_suffix_2(first_line) ==
    IF starts_with(first_line, version_sp) /\ ends_with(first_line, sp_2)
    THEN V2 ELSE V1

\* `let version = if first_line.as_bstr().starts_with_str("version ") {..}`
detect(first_line) ==
    IF starts_with(first_line, version_sp)
    THEN IF ends_with(first_line, sp_1) THEN V1 ELSE V2
    ELSE V1

\* Provider::fail_on_err_lines
fail_on_err_lines(self, value) == [self EXCEPT !.fail_on_err = value]

\* capabilities::recv::v1_or_v2_as_detected
v1_or_v2_as_detected(provider, stream) ==
    With(peek_line(fail_on_err_lines(provider, TRUE), stream), LAMBDA peeked :
        IF peeked.item.k = "eof"
        THEN [rd |-> peeked.rd,
              outcome |-> HandshakeErr("ExpectedLine", <<>>)]
        ELSE IF peeked.item.k = "error"
        THEN [rd |-> peeked.rd,
              outcome |-> HandshakeErr("Io", peeked.item.data)]
        ELSE With(to_text(peeked.item.data), LAMBDA first_line :
             IF detect(first_line) = V1
             THEN With(from_bytes(first_line), LAMBDA parsed :
                      IF ~parsed.ok
                      THEN [rd |-> peeked.rd,
                            outcome |-> Detected(V1,
                                HandshakeErr(parsed.error, <<>>))]
                      ELSE [rd |-> peek_buffer_replace_and_truncate(
                                       peeked.rd, parsed.delimiter_pos, LF),
                            outcome |-> Detected(V1,
                                HandshakeOk(V1, parsed.capabilities, SP, TRUE))])
             ELSE With(from_lines(peeked.rd, stream), LAMBDA read :
                      [rd |-> read.rd,
                       outcome |-> Detected(V2, read.outcome)])))

\* client::MessageKind
KindFlush == [k |-> "Flush", data |-> <<>>]
KindDelimiter == [k |-> "Delimiter", data |-> <<>>]
KindText(t) == [k |-> "Text", data |-> t]

\* RequestWriter::into_read: the message that ends the request.
write_message(kind, out) ==
    IF kind.k = "Flush" THEN flush_to_write(out)
    ELSE IF kind.k = "Delimiter" THEN delim_to_write(out)
    ELSE text_to_write(kind.data, out)

\* No request was made.
NoRequest ==
    [state |-> "none", write_mode |-> "Binary", on_into_read |-> KindFlush,
     start |-> 0, writes |-> <<>>]

\* RequestWriter::new_from_bufread, as Connection::request calls it.
new_from_bufread(writer, write_mode, on_into_read) ==
    [state |-> "writing", write_mode |-> write_mode,
     on_into_read |-> on_into_read, start |-> len(writer), writes |-> <<>>]

\* (mutation) The line provider stops at no line.
line_provider_without_delimiters == Provider_new({})

\* `line_provider: git_packetline::Provider::new(read, &[PacketLine::Flush])`
Connection_line_provider == Provider_new({FlushLine})

\* Connection::new
Connection_new(desired_version, repository_path, virtual_host, mode) ==
    [writer |-> <<>>, path |-> repository_path, virtual_host |-> virtual_host,
     desired_version |-> desired_version, mode |-> mode]

\* Connection::desired_protocol_version
desired_protocol_version(self) == self.desired_version

\* What a reader gave to its caller.
Received(reader, item) == [reader |-> reader, item |-> item]

\* The reads that found their reader at its end.
ReadsAtEnd(reader) ==
    Cardinality({i \in 1..Len(received) :
                    received[i].reader = reader /\ received[i].item.k # "line"})

\* handshake(), first half: to a daemon the connect message is written as one
\* write_all through a Writer in binary mode, to a process nothing.
HandshakeWrites ==
    /\ conn_pc = "new"
    /\ connection' =
          [connection EXCEPT !.writer =
              IF connection.mode = "Daemon"
              THEN Writer_write(Writer_new(@),
                                connect(git_upload_pack,
                                        connection.desired_version,
                                        connection.path,
                                        connection.virtual_host)).out
              ELSE @]
    /\ conn_pc' = "greeted"
    /\ UNCHANGED <<server_response, line_provider, response, request_writer,
                   received>>

\* handshake(), second half: v1_or_v2_as_detected on the line provider.
HandshakeReads ==
    /\ conn_pc = "greeted"
    /\ LET res == v1_or_v2_as_detected(line_provider, server_response) IN
       /\ line_provider' = res.rd
       /\ response' = res.outcome
       /\ conn_pc' = IF res.outcome.state = "err" THEN "failed"
                     ELSE IF res.outcome.refs THEN "refs" ELSE "idle"
    /\ UNCHANGED <<server_response, connection, request_writer, received>>

\* The caller reads a line of the refs that the handshake returned.
ReadRefs ==
    /\ conn_pc = "refs"
    /\ ReadsAtEnd("refs") < MaxReadsAtEnd
    /\ LET res == read_line(line_provider, server_response) IN
       /\ line_provider' = res.rd
       /\ received' = Append(received, Received("refs", res.item))
    /\ UNCHANGED <<server_response, connection, response, request_writer, conn_pc>>

\* The caller drops the response of the handshake.
DropResponse ==
    /\ conn_pc = "refs"
    /\ conn_pc' = "idle"
    /\ UNCHANGED <<server_response, connection, line_provider, response,
                   request_writer, received>>

\* Connection::request: a writer on the connection's stream, and a reader on
\* the line provider, which is reset for it.
Request ==
    /\ conn_pc = "idle"
    /\ \E write_mode \in {"Binary", "OneLFTerminatedLinePerWriteCall"},
          on_into_read \in {KindFlush, KindDelimiter, KindText(done)} :
          request_writer' =
              new_from_bufread(connection.writer, write_mode, on_into_read)
    /\ line_provider' = reset(line_provider)
    /\ conn_pc' = "writing"
    /\ UNCHANGED <<server_response, connection, response, received>>

\* The caller writes "hello" and "world" in turn, as the test does.
NextToWrite == IF Len(request_writer.writes) % 2 = 0 THEN hello ELSE world

\* RequestWriter::write: through a Writer in the mode of the request. The
\* caller may also write nothing.
RequestWrite ==
    /\ conn_pc = "writing"
    /\ Len(request_writer.writes) < MaxLines
    /\ \E buf \in {<<>>, NextToWrite} :
          LET res == Writer_write(
                         [inner |-> connection.writer,
                          binary |-> request_writer.write_mode = "Binary"], buf)
          IN  /\ connection' = [connection EXCEPT !.writer = res.out]
              /\ request_writer' =
                    [request_writer EXCEPT !.writes =
                        Append(@, [buf |-> buf, ok |-> res.ok])]
    /\ UNCHANGED <<server_response, line_provider, response, received, conn_pc>>

\* RequestWriter::into_read
IntoRead ==
    /\ conn_pc = "writing"
    /\ connection' =
          [connection EXCEPT !.writer =
              write_message(request_writer.on_into_read, @).out]
    /\ request_writer' = [request_writer EXCEPT !.state = "reading"]
    /\ conn_pc' = "reading"
    /\ UNCHANGED <<server_response, line_provider, response, received>>

\* The caller reads a line of the response to its request.
ReadResponse ==
    /\ conn_pc = "reading"
    /\ ReadsAtEnd("response") < MaxReadsAtEnd
    /\ LET res == read_line(line_provider, server_response) IN
       /\ line_provider' = res.rd
       /\ received' = Append(received, Received("response", res.item))
    /\ UNCHANGED <<server_response, connection, response, request_writer, conn_pc>>

\* The caller drops the reader of the response.
DropReader ==
    /\ conn_pc = "reading"
    /\ request_writer' = [request_writer EXCEPT !.state = "dropped"]
    /\ conn_pc' = "answered"
    /\ UNCHANGED <<server_response, connection, line_provider, response, received>>

\* (mutation) close() sends nothing.
Close_without_flush ==
    /\ conn_pc \in {"idle", "answered"}
    /\ conn_pc' = "closed"
    /\ UNCHANGED <<server_response, connection, line_provider, response,
                   request_writer, received>>

\* Connection::close
Close ==
    /\ conn_pc \in {"idle", "answered"}
    /\ connection' = [connection EXCEPT !.writer = flush_to_write(@).out]
    /\ conn_pc' = "closed"
    /\ UNCHANGED <<server_response, line_provider, response, request_writer,
                   received>>

\* What a server may send first, and after it.
RefWithCapabilities ==
    DataLine(bytes(<<"r", "1", NUL, "c", "1", SP, "c", "2", LF>>))
Version2 == DataLine(concat(version_sp, bytes(<<"2", LF>>)))
FirstLines ==
    {RefWithCapabilities, Version2,
     DataLine(concat(version_sp, bytes(<<"1", LF>>))),
     DataLine(concat(version_sp, bytes(<<"3", LF>>))),
     DataLine(concat(version_sp, bytes(<<"x", SP, "2", LF>>))),
     DataLine(bytes(<<"r", "1", LF>>)),
     DataLine(bytes(<<"r", "1", NUL, LF>>)),
     DataLine(concat(ERR_PREFIX, bytes(<<"x">>))),
     DataLine(ERR_PREFIX),
     DataLine(bytes(<<"E", "R", "R">>)),
     FlushLine}
NextLine == DataLine(bytes(<<"l", "2", LF>>))
Nak == DataLine(bytes(<<"N", "A", "K", LF>>))
ErrLine == DataLine(concat(ERR_PREFIX, bytes(<<"x">>)))
Tails ==
    {<<NextLine, FlushLine, Nak, FlushLine>>,
     <<ErrLine, FlushLine, Nak, FlushLine>>,
     <<FlushLine, ErrLine, Nak, FlushLine>>}
Responses == {<<>>} \cup {<<first>> \o tail : first \in FirstLines, tail \in Tails}

\* How a connection may be made.
VirtualHosts ==
    {NoneOf, SomeOf(<<example_org, NoneOf>>), SomeOf(<<example_org, SomeOf(daemon_port)>>)}
Connections ==
    {Connection_new(version, foo_git, host, "Daemon") :
        version \in {V1, V2}, host \in VirtualHosts}
    \cup {Connection_new(version, foo_git, NoneOf, "Process") : version \in {V1, V2}}

\* No connection is in use.
NoConnection ==
    /\ connection = Connection_new(V1, <<>>, NoneOf, "Process")
    /\ server_response = <<>>
    /\ line_provider = Connection_line_provider
    /\ response = NoResponse
    /\ request_writer = NoRequest
    /\ received = <<>>
    /\ conn_pc = "none"

\* Neither a packet-line writer nor a connection is in use.
NoWire == NoWriter /\ NoConnection

\* ------------------------------------------- invert_parent_links, step by step

\* invert_parent_links is given at most MaxEdits edits.
MaxEdits == 4

\* Index::parent_index: the index of a Parent link, unreachable!() for a
\* Child link.
parent_index(self) == IF self.k = "Parent" THEN SomeOf(self.i) ELSE NoneOf

\* invert_parent_links is not in use.
NotInverting ==
    [pc |-> "none", given |-> <<>>, changes |-> <<>>, leaf_cursor_index |-> 0,
     next_child_index |-> 0, parent_idx_cursor |-> NoneOf, visits |-> <<>>]

\* The edit lists of a transaction before it is prepared, as far as their
\* links go: an edit has no link, or is the split of an edit before it.
LinkedEdits ==
    UNION {{l \in [1..n -> [index : {NoIndex} \cup {Parent(i) : i \in 1..MaxEdits}]] :
                \A i \in 1..n : l[i].index.k = "Parent" => l[i].index.i < i} :
           n \in 0..MaxEdits}

\* invert_parent_links(changes) is called.
Inverting(changes) ==
    [NotInverting EXCEPT !.pc = "call", !.given = changes, !.changes = changes,
                         !.visits = [i \in 1..Len(changes) |-> 0]]

\* The two unreachable!() of the source.
Unreachable ==
    {"caller made sure this can't happen", "there is only one path to a child"}

\* `if changes.is_empty() { return; } let mut leaf_cursor_index = changes.len();`
InvertBegin ==
    /\ inversion.pc = "call"
    /\ inversion' =
          IF Len(inversion.changes) = 0
          THEN [inversion EXCEPT !.pc = "returned"]
          ELSE [inversion EXCEPT !.pc = "loop",
                                 !.leaf_cursor_index = Len(inversion.changes) + 1]

\* The last edit before leaf_cursor_index that has a Parent link, if there is
\* one. Indices are 1-based here, 0-based in the source.
LastLeaf(changes, leaf_cursor_index) ==
    LET leaves == {i \in 1..(leaf_cursor_index - 1) : changes[i].index.k = "Parent"}
    IN  IF leaves = {} THEN NoneOf ELSE SomeOf(Max(leaves))

\* (mutation) The search for the next leaf starts at the end each time.
InvertFindLeafFromTheEnd ==
    /\ inversion.pc = "loop"
    /\ LET leaf == LastLeaf(inversion.changes, inversion.leaf_cursor_index) IN
       inversion' =
          IF leaf = NoneOf
          THEN [inversion EXCEPT !.pc = "returned"]
          ELSE [inversion EXCEPT
                   !.pc = "walk",
                   !.next_child_index = leaf[1],
                   !.parent_idx_cursor = parent_index(inversion.changes[leaf[1]].index)]

\* One round of `loop`, up to the inner loop: the next leaf is looked for, and
\* if there is none the function returns.
InvertFindLeaf ==
    /\ inversion.pc = "loop"
    /\ LET leaf == LastLeaf(inversion.changes, inversion.leaf_cursor_index) IN
       inversion' =
          IF leaf = NoneOf
          THEN [inversion EXCEPT !.pc = "returned"]
          ELSE IF parent_index(inversion.changes[leaf[1]].index) = NoneOf
          THEN [inversion EXCEPT !.pc = "caller made sure this can't happen"]
          ELSE [inversion EXCEPT
                   !.pc = "walk",
                   !.leaf_cursor_index = leaf[1],
                   !.next_child_index = leaf[1],
                   !.parent_idx_cursor = parent_index(inversion.changes[leaf[1]].index)]

\* One round of the inner `while let`: the parent at the cursor is visited.
InvertWalk ==
    /\ inversion.pc = "walk"
    /\ LET pidx == inversion.parent_idx_cursor[1]
           parent == inversion.changes[pidx]
           taken == [inversion EXCEPT !.parent_idx_cursor = NoneOf,
                                      !.visits[pidx] = @ + 1]
       IN  inversion' =
              IF parent.index.k = "Child"
              THEN [taken EXCEPT !.pc = "there is only one path to a child"]
              ELSE IF parent.index.k = "Parent"
              THEN [taken EXCEPT !.changes[pidx].index = Child(inversion.next_child_index),
                                 !.next_child_index = pidx,
                                 !.parent_idx_cursor = SomeOf(parent.index.i)]
              ELSE [taken EXCEPT !.pc = "loop"]

\* ------------------------------------------------------------ Time::write_to

\* i32::MIN and i32::MAX
I32_MIN == -2147483647 - 1
I32_MAX == 2147483647

\* enum Sign
Plus == "Plus"
Minus == "Minus"

\* struct Time
Time(time, offset, sign) == [time |-> time, offset |-> offset, sign |-> sign]

\* `/` on i32: the quotient is cut towards zero.
div(a, b) == IF a >= 0 \/ a % b = 0 THEN a \div b ELSE (a \div b) + 1

\* i32::abs. Of i32::MIN it panics in a build that checks overflow and is
\* i32::MIN in one that does not.
abs(n, overflow_checks) ==
    IF n = I32_MIN
    THEN (IF overflow_checks THEN NoneOf ELSE SomeOf(I32_MIN))
    ELSE SomeOf(IF n < 0 THEN -n ELSE n)

\* itoa::write: the decimal digits, after '-' for a negative number.
itoa(n) == IF n < 0 THEN concat(bytes(<<"-">>), decimal(-n)) ELSE decimal(n)

ZERO == bytes(<<"0">>)
SECONDS_PER_HOUR == 60 * 60

\* (mutation) No zero is put before a single digit.
two_digits_unpadded(n) == itoa(n)

\* `if n < 10 { out.write_all(ZERO)?; } itoa::write(&mut out, n)`
two_digits(n) == concat(IF n < 10 THEN ZERO ELSE <<>>, itoa(n))

\* Time::write_to: what is written to `out`, or nothing if it panics.
write_to(self, overflow_checks) ==
    With(abs(self.offset, overflow_checks), LAMBDA offset :
        IF offset = NoneOf THEN NoneOf
        ELSE With(div(offset[1], SECONDS_PER_HOUR), LAMBDA hours :
            IF ~(hours < 25) THEN NoneOf
            ELSE SomeOf(concat(concat(concat(itoa(self.time), bytes(<<SP>>)),
                                      bytes(<<IF self.sign = Plus THEN "+" ELSE "-">>)),
                               concat(two_digits(hours),
                                      two_digits(div(offset[1] - hours * SECONDS_PER_HOUR,
                                                     60)))))))

\* The value of a decimal digit, -1 for any other byte.
digit(b) ==
    IF \E d \in 1..10 : HexDigits[d] = b
    THEN (CHOOSE d \in 1..10 : HexDigits[d] = b) - 1
    ELSE -1

\* The number that the first n bytes are the decimal digits of, -1 if one of
\* them is not a digit.
RECURSIVE number_of(_, _)
number_of(buf, n) ==
    IF n = 0 THEN 0
    ELSE With(number_of(buf, n - 1), LAMBDA front :
             IF front < 0 \/ digit(byte_at(buf, n - 1)) < 0 THEN -1
             ELSE front * 10 + digit(byte_at(buf, n - 1)))

\* The number that the bytes are the decimal digits of, -1 if they are none.
number(buf) == IF len(buf) = 0 THEN -1 ELSE number_of(buf, len(buf))

\* The time of a signature is read: "<seconds> <sign>HHMM" gives the seconds, the offset in seconds with the sign that
\* was read, and Sign::Minus if that sign is '-'; nothing for other bytes.
Time_from_bytes(buf) ==
    With(find_byte(buf, SP), LAMBDA sp :
        IF sp < 0 THEN NoneOf
        ELSE With(<<number(take(buf, sp)), skip(buf, sp + 1)>>, LAMBDA parts :
            IF \/ parts[1] < 0
               \/ len(parts[2]) # 5
               \/ byte_at(parts[2], 0) \notin {"+", "-"}
               \/ number(take(skip(parts[2], 1), 2)) < 0
               \/ number(skip(parts[2], 3)) < 0
            THEN NoneOf
            ELSE SomeOf(Time(parts[1],
                             (IF byte_at(parts[2], 0) = "-" THEN -1 ELSE 1)
                                 * (number(take(skip(parts[2], 1), 2)) * SECONDS_PER_HOUR
                                    + number(skip(parts[2], 3)) * 60),
                             IF byte_at(parts[2], 0) = "-" THEN Minus ELSE Plus))))

\* The seconds of the times that are written: the least, those of the tests
\* and the greatest that fit i32 as well.
Times == {0, 500, 189009009, I32_MAX}

\* The greatest offset that is looked at, in hours: the first that write_to
\* refuses.
MaxHours == 25

\* The offsets of the times that are written, in seconds: whole hours and
\* minutes on both sides of zero and up to MaxHours, some with seconds, those
\* of the tests, and the least i32.
Offsets ==
    {s * o : s \in {-1, 1},
             o \in {0, 60, 61, 599, 600, 9000, 36000,
                    (MaxHours - 1) * SECONDS_PER_HOUR + 59 * 60,
                    MaxHours * SECONDS_PER_HOUR}}
        \cup {I32_MIN}

\* No time is written or read.
NoTime == [pc |-> "none", time |-> Time(0, 0, Plus), written |-> NoneOf,
           parsed |-> NoneOf]

\* time.write_to(out)
TimeWriteTo ==
    /\ time_io.pc = "new"
    /\ \E overflow_checks \in BOOLEAN :
          time_io' =
              IF write_to(time_io.time, overflow_checks) = NoneOf
              THEN [time_io EXCEPT !.pc = "panicked"]
              ELSE [time_io EXCEPT !.pc = "written",
                                   !.written = write_to(time_io.time, overflow_checks)]

\* What was written is read.
TimeRead ==
    /\ time_io.pc = "written"
    /\ time_io' =
          IF Time_from_bytes(time_io.written[1]) = NoneOf
          THEN [time_io EXCEPT !.pc = "rejected"]
          ELSE [time_io EXCEPT !.pc = "read",
                               !.parsed = Time_from_bytes(time_io.written[1])]

\* -------------------------------------------------------------- reflog lines

\* Some more bytes.
HT == "HT"
CR == "CR"
FF == "FF"

\* u8::is_ascii_whitespace
is_ascii_whitespace(b) == b \in {SP, HT, LF, FF, CR}

\* tag(t): the input after t, if it starts with t.
tag(t, i) == IF starts_with(i, t) THEN SomeOf(skip(i, len(t))) ELSE NoneOf

\* parse::hex_hash: forty hexadecimal digits, and the input after them.
hex_hash(i) ==
    IF len(i) >= 40
          /\ \A r \in 1..Len(take(i, 40)) :
                \E d \in 1..Len(HexDigits) : HexDigits[d] = take(i, 40)[r].b
    THEN SomeOf(<<skip(i, 40), take(i, 40)>>)
    ELSE NoneOf

\* terminated(hex_hash, tag(b" "))
hex_hash_and_space(i) ==
    With(hex_hash(i), LAMBDA hash :
        IF hash = NoneOf \/ tag(bytes(<<SP>>), hash[1][1]) = NoneOf THEN NoneOf
        ELSE SomeOf(<<tag(bytes(<<SP>>), hash[1][1])[1], hash[1][2]>>))

\* struct Signature
Signature(name, email, time) == [name |-> name, email |-> email, time |-> time]

\* All of the bytes up to the first `b`, and what comes after that `b`; nothing
\* if there is no `b`, or a line feed before it.
up_to(i, b) ==
    With(find_byte(i, b), LAMBDA at :
        IF at < 0 \/ find_byte(take(i, at), LF) >= 0 THEN NoneOf
        ELSE SomeOf(<<skip(i, at + 1), take(i, at)>>))

\* signature::decode: "<name> <<email>> <seconds> <sign>HHMM", and the input
\* after it.
signature_decode(i) ==
    With(up_to(i, "<"), LAMBDA name :
        IF name = NoneOf \/ ~ends_with(name[1][2], bytes(<<SP>>)) THEN NoneOf
        ELSE With(up_to(name[1][1], ">"), LAMBDA email :
            IF email = NoneOf \/ tag(bytes(<<SP>>), email[1][1]) = NoneOf THEN NoneOf
            ELSE With(tag(bytes(<<SP>>), email[1][1])[1], LAMBDA at_time :
                IF find_byte(at_time, SP) < 0
                      \/ len(at_time) < find_byte(at_time, SP) + 6
                      \/ Time_from_bytes(take(at_time, find_byte(at_time, SP) + 6)) = NoneOf
                THEN NoneOf
                ELSE SomeOf(<<skip(at_time, find_byte(at_time, SP) + 6),
                              Signature(take(name[1][2], len(name[1][2]) - 1),
                                        email[1][2],
                                        Time_from_bytes(
                                            take(at_time, find_byte(at_time, SP) + 6))[1])>>))))

\* (mutation) The line feed after the message is left in the input.
message_before_newline(i) ==
    IF is_empty(i) THEN <<<<>>, i>>
    ELSE IF find_byte(i, LF) < 0 THEN <<<<>>, i>>
    ELSE <<skip(i, find_byte(i, LF)), take(i, find_byte(i, LF))>>

\* decode::message: the bytes up to the first line feed or the end, and the
\* input after them and after that line feed.
message(i) ==
    IF is_empty(i) THEN <<<<>>, i>>
    ELSE IF find_byte(i, LF) < 0 THEN <<<<>>, i>>
    ELSE <<skip(i, find_byte(i, LF) + 1), take(i, find_byte(i, LF))>>

\* struct Line
Line(old, new, signature, msg) ==
    [previous_oid |-> old, new_oid |-> new, signature |-> signature, message |-> msg]

\* The results of decode::one.
LineOk(i, line) == [ok |-> TRUE, rest |-> i, line |-> line, context |-> ""]
LineErr(context) ==
    [ok |-> FALSE, rest |-> <<>>, line |-> Line(<<>>, <<>>, <<>>, <<>>),
     context |-> context]

\* The end of decode::one, after the tuple has matched.
one_checked(i, old, new, signature, message_sep, msg) ==
    IF message_sep = NoneOf /\ ~is_empty(msg) /\ ~is_ascii_whitespace(byte_at(msg, 0))
    THEN LineErr("log message must be separated from signature with whitespace")
    ELSE LineOk(i, Line(old, new, signature, msg))

\* decode::one
one(input) ==
    With(hex_hash_and_space(input), LAMBDA old :
        IF old = NoneOf THEN LineErr("<old-hexsha>")
        ELSE With(hex_hash_and_space(old[1][1]), LAMBDA new :
            IF new = NoneOf THEN LineErr("<new-hexsha>")
            ELSE With(signature_decode(new[1][1]), LAMBDA signature :
                IF signature = NoneOf THEN LineErr("<name> <<email>> <timestamp>")
                ELSE With(tag(bytes(<<HT>>), signature[1][1]), LAMBDA message_sep :
                    With(message(IF message_sep = NoneOf THEN signature[1][1]
                                 ELSE message_sep[1]),
                         LAMBDA msg :
                             one_checked(msg[1], old[1][2], new[1][2], signature[1][2],
                                         message_sep, msg[2]))))))

\* What the lines that are read are made of.
NULL_SHA1 == Repeat("0", 40)
one_name == bytes(<<"o", "n", "e">>)
foo_example_com ==
    bytes(<<"f", "o", "o", "@", "e", "x", "a", "m", "p", "l", "e", ".", "c", "o", "m">>)

\* A line is made of two ids, a signature, and after them the separator or
\* not, any of three messages, and a line feed or not.
LineParts ==
    {[old |-> from[1], time |-> from[2], sep |-> sep, message |-> msg,
      newline |-> newline] :
        from \in {<<NULL_SHA1, Time(1234567890, 0, Minus)>>,
                  <<concat(Repeat("a", 39), bytes(<<"5">>)),
                    Time(1618030561, 28800, Plus)>>},
        sep \in BOOLEAN,
        msg \in {<<>>, hello, concat(bytes(<<SP>>), hello)},
        newline \in BOOLEAN}

\* The bytes of a line.
LineBytes(p) ==
    concat(concat(concat(p.old, bytes(<<SP>>)), concat(NULL_SHA1, bytes(<<SP>>))),
           concat(concat(concat(concat(one_name, bytes(<<SP, "<">>)),
                                concat(foo_example_com, bytes(<<">", SP>>))),
                         write_to(p.time, TRUE)[1]),
                  concat(concat(IF p.sep THEN bytes(<<HT>>) ELSE <<>>, p.message),
                         IF p.newline THEN bytes(<<LF>>) ELSE <<>>)))

\* The bytes of lines, one after the other.
RECURSIVE LinesBytes(_)
LinesBytes(ps) ==
    IF ps = <<>> THEN <<>> ELSE concat(LineBytes(Head(ps)), LinesBytes(Tail(ps)))

\* The reflogs that are read have at most MaxLogLines lines.
MaxLogLines == 2

\* The reflogs that are read: every line but the last ends with a line feed.
Reflogs ==
    UNION {{ps \in [1..n -> LineParts] : \A k \in 1..(n - 1) : ps[k].newline} :
           n \in 1..MaxLogLines}

\* No reflog line is read.
NoLog == [pc |-> "none", made_of |-> <<>>, remainder |-> <<>>, lines |-> <<>>,
          context |-> ""]

\* decode::one is called on what is left of the input.
LogReadOne ==
    /\ log_io.pc = "reading"
    /\ LET parsed == one(log_io.remainder) IN
       log_io' =
          IF parsed.ok
          THEN [log_io EXCEPT
                   !.lines = Append(@, parsed.line),
                   !.remainder = parsed.rest,
                   !.pc = IF is_empty(parsed.rest) THEN "end" ELSE "reading"]
          ELSE [log_io EXCEPT !.pc = "failed", !.context = parsed.context]

\* None of the functions that are looked at on their own is in use.
NoFunctions ==
    /\ inversion = NotInverting
    /\ time_io = NoTime
    /\ log_io = NoLog

\* ----------------------------------------------------------- specifications

Oids == 1..MaxOid

\* The expectations an edit may carry: none, the null id, or an object id.
Previous == {None, Peeled(0), Peeled(1)}
\* What an update may set: an object id, or a link to another reference.
NewTargets(n) == {Peeled(MaxOid)} \cup {Symbolic(m) : m \in Names \ {n}}
\* deref is asked only for HEAD, the reference that starts out symbolic.
Derefs(n) == IF n = "HEAD" THEN BOOLEAN ELSE {FALSE}

RefEdits(n) ==
    {Update(n, p, new, d) : p \in Previous, new \in NewTargets(n), d \in Derefs(n)}
        \cup {Delete(n, p, m, d) :
                 p \in Previous, m \in {"AndReference", "Only"}, d \in Derefs(n)}

\* The edit lists a caller hands to Store::transaction: one edit, or one edit
\* without deref for each of two different names, in either order.
EditLists ==
    {<<e>> : e \in UNION {RefEdits(n) : n \in Names}}
        \cup {l \in UNION {{<<e, f>>, <<f, e>>} :
                              e \in RefEdits("HEAD"), f \in RefEdits("main")} :
                 ~l[1].deref /\ ~l[2].deref}

\* What a second writer does to main: it links it elsewhere or deletes it,
\* expecting nothing.
WriterEdits ==
    {Update("main", None, Symbolic("HEAD"), FALSE),
     Delete("main", None, "AndReference", FALSE)}

\* The stores a transaction may find: HEAD is symbolic or detached, main is
\* missing, undecodable or peeled.
RefFiles(n) ==
    IF n = "HEAD" THEN {Symbolic("main"), Peeled(1)}
    ELSE {Absent, Garbage} \cup {Peeled(o) : o \in Oids}

StoresWith(heads) ==
    {f \in [Names -> heads \cup RefFiles("main")] :
        f["HEAD"] \in heads /\ f["main"] \in RefFiles("main")}

InitLocals ==
    /\ state = [t \in Txs |-> "Open"]
    /\ cursor = [t \in Txs |-> 0]
    /\ existing_ref = [t \in Txs |-> Ok(None)]
    /\ attempts = [t \in Txs |-> 0]
    /\ returned = [t \in Txs |-> NoError]
    /\ via_commit = [t \in Txs |-> FALSE]
    /\ prepares = [t \in Txs |-> 0]
    /\ before = [t \in Txs |-> [refs |-> refs, reflogs |-> reflogs,
                                 lockfiles |-> lockfiles, edits |-> updates[t]]]

\* One transaction was opened and the other one does not exist. Either every
\* reference has a reflog or none has. A crashed process may have left
\* main.lock behind, which is when the failure mode matters, and I/O may fail.
Init ==
    /\ refs \in StoresWith(RefFiles("HEAD"))
    /\ reflogs \in {{}, Names}
    /\ \E stale \in {{}, {"main"}} :
          /\ lockfiles = [n \in Names |-> IF n \in stale THEN Empty ELSE Absent]
          /\ \E retries \in (IF stale = {} THEN {0} ELSE 0..MaxRetries) :
                lock_fail_mode = (1 :> retries) @@ (2 :> 0)
    /\ faults = 0
    /\ \E edits \in EditLists : updates = (1 :> transaction(edits)) @@ (2 :> <<>>)
    /\ pc = (1 :> "open") @@ (2 :> "none")
    /\ InitLocals
    /\ NoHeuristic
    /\ NoPack
    /\ NoWire
    /\ NoFunctions

\* The single edits that come to main: those that name it, and those that
\* name HEAD and follow its link.
MainEdits == RefEdits("main") \cup {e \in RefEdits("HEAD") : e.deref}

\* Two transactions were opened against the same store, in which HEAD links
\* to main and both have a reflog: the first with any single edit that comes
\* to main, the second a writer of main that fails immediately on a held
\* lock. No lock file is stale and no I/O fails.
InitConcurrent ==
    /\ refs \in StoresWith({Symbolic("main")})
    /\ reflogs = Names
    /\ lockfiles = [n \in Names |-> Absent]
    /\ faults = MaxFaults
    /\ \E e \in MainEdits, w \in WriterEdits :
          updates = (1 :> transaction(<<e>>)) @@ (2 :> transaction(<<w>>))
    /\ \E retries \in 0..MaxRetries : lock_fail_mode = (1 :> retries) @@ (2 :> 0)
    /\ pc = [t \in Txs |-> "open"]
    /\ InitLocals
    /\ NoHeuristic
    /\ NoPack
    /\ NoWire
    /\ NoFunctions

\* A step of a transaction leaves the heuristic and the pack generator alone.
OnlyTransactions ==
    UNCHANGED <<heuristic_vars, pack_vars, wire_vars, function_vars>>

Step(t) ==
    \/ Prepare(t) /\ OnlyTransactions
    \/ CommitOpen(t) /\ OnlyTransactions
    \/ ReadRef(t) /\ OnlyTransactions
    \/ AcquireLock(t) /\ OnlyTransactions
    \/ RetryLock(t) /\ OnlyTransactions
    \/ LockAcquireFails(t) /\ OnlyTransactions
    \/ ApplyDelete(t) /\ OnlyTransactions
    \/ ApplyUpdate(t) /\ OnlyTransactions
    \/ Invert(t) /\ OnlyTransactions
    \/ PrepareAgain(t) /\ OnlyTransactions
    \/ DropPrepared(t) /\ OnlyTransactions
    \/ BeginCommit(t) /\ OnlyTransactions
    \/ CommitUpdate(t) /\ OnlyTransactions
    \/ RemoveReflog(t) /\ OnlyTransactions
    \/ RemoveRef(t) /\ OnlyTransactions
    \/ Unlock(t) /\ OnlyTransactions

\* Only transactions that were opened take steps.
Next == \E t \in Txs : Step(t)

\* One transaction against a store nobody else writes to.
Spec == Init /\ [][Next]_vars

\* Two transactions against the same store.
SpecConcurrent == InitConcurrent /\ [][Next]_vars

\* No transaction was opened and the store is empty.
NoTransactions ==
    /\ refs = [n \in Names |-> Absent]
    /\ reflogs = {}
    /\ lockfiles = [n \in Names |-> Absent]
    /\ faults = 0
    /\ updates = [t \in Txs |-> <<>>]
    /\ lock_fail_mode = [t \in Txs |-> 0]
    /\ pc = [t \in Txs |-> "none"]
    /\ InitLocals

InitHeuristic ==
    call \in Calls /\ result = NotCalled /\ NoTransactions /\ NoPack /\ NoWire
        /\ NoFunctions

NextHeuristic ==
    \/ Optimize /\ UNCHANGED <<transaction_vars, pack_vars, wire_vars, function_vars>>
    \/ NumThreads /\ UNCHANGED <<transaction_vars, pack_vars, wire_vars, function_vars>>

\* One call of the heuristic, or of num_threads, with any arguments.
SpecHeuristic == InitHeuristic /\ [][NextHeuristic]_vars

\* create() is about to turn any counts into a pack, on a machine with any
\* number of cores, with any thread limit, writing to a sink that works or to
\* one that may fail.
InitPack ==
    /\ counts \in SeqsUpTo(CountKinds, MaxCounts)
    /\ sink \in {"ok", "broken"}
    /\ \E limit \in {Nothing} \cup {Some(l) : l \in 0..MaxThreads},
          cores \in 1..MaxThreads :
          call = [desired_chunk_size |-> create_chunk_size,
                  num_items |-> Some(Len(counts)), thread_limit |-> limit,
                  available_threads |-> Nothing, cores |-> cores]
    /\ result = NotCalled
    /\ pack_pc = "start"
    /\ PackLocals
    /\ NoTransactions
    /\ NoFunctions
    /\ NoWire

\* The chunk sizes asked of the entry stage: none, a few that cut the counts
\* into several chunks, and the one of create().
MaxChunkSize == 2
ChunkSizes == 0..MaxChunkSize \cup {create_chunk_size}

\* One run of the pack generator with any chunk size, on a sink that works.
InitEntries ==
    /\ counts \in SeqsUpTo(CountKinds, MaxCounts)
    /\ sink = "ok"
    /\ \E limit \in {Nothing} \cup {Some(l) : l \in 0..MaxThreads},
          cores \in 1..MaxThreads, chunk_size \in ChunkSizes :
          call = [desired_chunk_size |-> chunk_size,
                  num_items |-> Some(Len(counts)), thread_limit |-> limit,
                  available_threads |-> Nothing, cores |-> cores]
    /\ result = NotCalled
    /\ pack_pc = "start"
    /\ PackLocals
    /\ NoTransactions
    /\ NoFunctions
    /\ NoWire

\* A step of the pack generator leaves the transactions alone.
OnlyPack == UNCHANGED <<transaction_vars, call, wire_vars, function_vars>>

NextPack ==
    \/ FromCountsIter /\ OnlyPack
    \/ \E w \in 1..MaxThreads : WorkerTakes(w) /\ OnlyPack
    \/ \E w \in 1..MaxThreads : WorkerSends(w) /\ OnlyPack
    \/ SerializerPulls /\ UNCHANGED result /\ OnlyPack
    \/ SerializerWrites /\ UNCHANGED result /\ OnlyPack
    \/ SerializerEnds /\ OnlyPack
    \/ Flush /\ OnlyPack

\* One run of create().
SpecPack == InitPack /\ [][NextPack]_vars

\* One run of the entry stage and its consumer, for any chunk size.
SpecEntries == InitEntries /\ [][NextPack]_vars

\* The same, with threads and serializer that go on while they can.
SpecEntriesLive == SpecEntries /\ WF_vars(NextPack)

\* A step of the writer leaves everything else alone.
OnlyWriter ==
    UNCHANGED <<transaction_vars, heuristic_vars, pack_vars, connection_vars,
                function_vars>>

\* A new Writer, in binary mode, over an empty stream.
InitWriter ==
    /\ line_writer = Writer_new(<<>>)
    /\ write_log = <<>>
    /\ writer_pc = "open"
    /\ NoConnection
    /\ NoTransactions
    /\ NoFunctions
    /\ NoHeuristic
    /\ NoPack

NextWriter ==
    \/ EnableTextMode /\ OnlyWriter
    \/ EnableBinaryMode /\ OnlyWriter
    \/ WriterWrite /\ OnlyWriter
    \/ WriterClose /\ OnlyWriter

\* A writer that is written to in either mode, and closed.
SpecWriter == InitWriter /\ [][NextWriter]_vars

\* A step of the connection leaves everything else alone.
OnlyConnection ==
    UNCHANGED <<transaction_vars, heuristic_vars, pack_vars, writer_vars,
                function_vars>>

\* A connection was made in any way to a server that sends the response of
\* V1, or as in the tests to a server that sends anything.
InitConnection ==
    /\ \/ /\ connection \in Connections
          /\ server_response = <<RefWithCapabilities, NextLine, FlushLine, Nak, FlushLine>>
       \/ /\ connection =
                Connection_new(V2, foo_git, SomeOf(<<example_org, NoneOf>>), "Daemon")
          /\ server_response \in Responses
    /\ line_provider = Connection_line_provider
    /\ response = NoResponse
    /\ request_writer = NoRequest
    /\ received = <<>>
    /\ conn_pc = "new"
    /\ NoWriter
    /\ NoTransactions
    /\ NoFunctions
    /\ NoHeuristic
    /\ NoPack

NextConnection ==
    \/ HandshakeWrites /\ OnlyConnection
    \/ HandshakeReads /\ OnlyConnection
    \/ ReadRefs /\ OnlyConnection
    \/ DropResponse /\ OnlyConnection
    \/ Request /\ OnlyConnection
    \/ RequestWrite /\ OnlyConnection
    \/ IntoRead /\ OnlyConnection
    \/ ReadResponse /\ OnlyConnection
    \/ DropReader /\ OnlyConnection
    \/ Close /\ OnlyConnection

\* A handshake, a request and close() on one connection.
SpecConnection == InitConnection /\ [][NextConnection]_vars

\* A step of one of the functions leaves everything else alone.
OnlyFunctions ==
    UNCHANGED <<transaction_vars, heuristic_vars, pack_vars, wire_vars>>

\* invert_parent_links is called with any list of linked edits.
InitInvert ==
    /\ \E changes \in LinkedEdits : inversion = Inverting(changes)
    /\ time_io = NoTime
    /\ log_io = NoLog
    /\ NoTransactions
    /\ NoHeuristic
    /\ NoPack
    /\ NoWire

NextInvert ==
    \/ InvertBegin /\ UNCHANGED <<time_io, log_io>> /\ OnlyFunctions
    \/ InvertFindLeaf /\ UNCHANGED <<time_io, log_io>> /\ OnlyFunctions
    \/ InvertWalk /\ UNCHANGED <<time_io, log_io>> /\ OnlyFunctions

\* One call of invert_parent_links, which goes on while it can.
SpecInvert == InitInvert /\ [][NextInvert]_vars /\ WF_vars(NextInvert)

\* Any time is written, and what was written is read.
InitTime ==
    /\ \E time \in Times, offset \in Offsets, sign \in {Plus, Minus} :
          time_io = [NoTime EXCEPT !.pc = "new", !.time = Time(time, offset, sign)]
    /\ inversion = NotInverting
    /\ log_io = NoLog
    /\ NoTransactions
    /\ NoHeuristic
    /\ NoPack
    /\ NoWire

NextTime ==
    \/ TimeWriteTo /\ UNCHANGED <<inversion, log_io>> /\ OnlyFunctions
    \/ TimeRead /\ UNCHANGED <<inversion, log_io>> /\ OnlyFunctions

\* One time, written and read back.
SpecTime == InitTime /\ [][NextTime]_vars

\* A reflog of some lines is to be read line by line.
InitLog ==
    /\ \E ps \in Reflogs :
          log_io = [NoLog EXCEPT !.pc = "reading", !.made_of = ps,
                                 !.remainder = LinesBytes(ps)]
    /\ inversion = NotInverting
    /\ time_io = NoTime
    /\ NoTransactions
    /\ NoHeuristic
    /\ NoPack
    /\ NoWire

NextLog == LogReadOne /\ UNCHANGED <<inversion, time_io>> /\ OnlyFunctions

\* The lines of one reflog, read one after the other.
SpecLog == InitLog /\ [][NextLog]_vars

\* ------------------------------------------------------------------- claims

\* The names a transaction's edits touch, those added by splitting included.
Touched(t) ==
    {before[t].edits[i].update.name : i \in 1..Len(before[t].edits)}

\* The transaction is inside the loop of prepare(), or just past it.
InPrepare(t) == pc[t] \in {"read", "acquire", "apply", "invert"}

\* The transaction took a step.
StepOf(t) ==
    \/ pc'[t] # pc[t]
    \/ cursor'[t] # cursor[t]
    \/ attempts'[t] # attempts[t]

\* C1: once a transaction that was prepared successfully is dropped without
\* commit, every reference file and every lock file of a name its edits touch
\* (split edits included) is as it was when prepare() was called, and no lock
\* file of such a name exists.
C1_DropRestores ==
    \A t \in Txs :
        pc[t] = "dropped" =>
            \A n \in Touched(t) :
                /\ refs[n] = before[t].refs[n]
                /\ lockfiles[n] = before[t].lockfiles[n]
                /\ lockfiles[n] = Absent

\* A prepared transaction with a split edit and a staged update was dropped.
C1_Witness ==
    /\ pc[1] = "dropped"
    /\ \E i \in 1..NumEdits(1) : updates[1][i].index.k = "Parent"
    /\ \E i \in 1..NumEdits(1) : updates[1][i].update.change = "Update"

\* C2: locks are requested in the order of the edit list (inside prepare()
\* exactly the edits before the current one hold a lock), and once prepare()
\* has failed the transaction owns no lock and every reference file and lock
\* file is as it was when prepare() was called.
C2_FailedPrepareRestores ==
    \A t \in Txs :
        /\ InPrepare(t) =>
              \A i \in 1..NumEdits(t) :
                  updates[t][i].lock <=> (i < cursor[t] \/ pc[t] = "invert")
        /\ (pc[t] = "failed" /\ state[t] = "Open") =>
              /\ Held(t) = {}
              /\ \A i \in 1..NumEdits(t) : ~updates[t][i].lock
              /\ refs = before[t].refs
              /\ lockfiles = before[t].lockfiles

\* prepare() failed on the second edit, after it had locked both references.
C2_Witness ==
    /\ pc[1] = "failed"
    /\ state[1] = "Open"
    /\ cursor[1] = 2
    /\ returned[1].kind = "DeleteReferenceOutOfDate"

\* No lock is owned by two transactions, and two transactions with an edit for
\* the same name are never both prepared.
MutualExclusion ==
    \A t \in Txs, u \in Txs :
        t # u =>
            /\ Held(t) \cap Held(u) = {}
            /\ (pc[t] = "prepared" /\ pc[u] = "prepared") =>
                   Touched(t) \cap Touched(u) = {}

\* A step of prepare() that ends in a lock-acquire error was taken with the
\* failure mode exhausted and leaves the references as they are.
LockFailureLeavesRefs ==
    \A t \in Txs :
        (StepOf(t) /\ returned'[t].kind = "LockAcquire") =>
            /\ attempts[t] = lock_fail_mode[t]
            /\ refs' = refs
            /\ reflogs' = reflogs

\* C3: of two concurrent transactions with an edit for the same name at most
\* one holds the lock of that name and at most one is prepared; the other
\* one's prepare() fails with a lock-acquire error once its failure mode is
\* exhausted, and does not change a reference.
C3_OneLockHolder == []MutualExclusion /\ [][LockFailureLeavesRefs]_vars

\* The second transaction failed to lock main while the first one holds it.
C3_Witness ==
    /\ pc[2] = "failed"
    /\ returned[2].kind = "LockAcquire"
    /\ "main" \in Held(1)
    /\ pc[1] = "prepared"

\* C4: the value prepare() compares with the edit's `previous` is the value
\* the reference has while the lock is held: with the lock acquired and the
\* check about to be made, `existing_ref` is what the reference file holds.
C4_CheckedUnderLock ==
    \A t \in Txs :
        pc[t] = "apply" =>
            existing_ref[t] = ReadExistingRef(refs[Current(t).update.name], FALSE)

\* Every update of the transaction is in place: its lock file was renamed onto
\* the reference, which holds what was staged.
UpdatesInPlace(t) ==
    \A i \in 1..NumEdits(t) :
        updates[t][i].update.change = "Update" =>
            /\ ~updates[t][i].lock
            /\ lockfiles[updates[t][i].update.name] = Absent
            /\ refs[updates[t][i].update.name] = Staged(updates[t][i].update.new)

\* C5: whenever commit() is about to remove, or has removed, the reflog or
\* the reference of a deletion, every update of the transaction is in place,
\* wherever the updates stand in the edit list.
C5_UpdatesBeforeDeletes ==
    \A t \in Txs :
        pc[t] \in {"rm_reflog", "rm_ref", "unlock"} => UpdatesInPlace(t)

\* The reflog of a deletion is removed while an update stands after it in the
\* edit list.
C5_Witness ==
    /\ pc[1] = "rm_ref"
    /\ cursor[1] = 1
    /\ NumEdits(1) = 2
    /\ updates[1][2].update.change = "Update"

\* C6: commit() does not abort at an update whose new target is a peeled id,
\* and once it is past such an update the reference holds the new id.
C6_PeeledUpdateCommitted ==
    \A t \in Txs :
        state[t] = "Prepared" =>
            \A i \in 1..NumEdits(t) :
                LET u == updates[t][i].update IN
                (u.change = "Update" /\ u.new.k = "Peeled") =>
                    /\ ~(pc[t] = "panicked" /\ cursor[t] = i)
                    /\ (pc[t] = "committed" => refs[u.name] = u.new)

\* The deletion at `i` is done with: the second loop is past it.
Deleted(t, i) ==
    /\ updates[t][i].update.change = "Delete"
    /\ \/ pc[t] = "committed"
       \/ pc[t] \in {"rm_reflog", "rm_ref", "unlock"} /\ i < cursor[t]

\* C7: commit() removes the reflog of a deletion before its reference; with
\* mode Only the reference is left as it was, with AndReference it is removed;
\* a failure to remove comes from an I/O error, not from a missing file; the
\* lock file is there until both removals are done and gone afterwards.
C7_DeleteOrder ==
    \A t \in Txs :
        /\ returned[t].kind \in {"DeleteReflog", "DeleteReference"} => faults > 0
        /\ \A i \in 1..NumEdits(t) :
              LET n == updates[t][i].update.name
                  and_reference == updates[t][i].update.mode = "AndReference"
                  removed == /\ n \notin reflogs
                             /\ and_reference => refs[n] = Absent
                             /\ ~and_reference => refs[n] = before[t].refs[n]
              IN  /\ (pc[t] = "rm_reflog" /\ cursor[t] = i) =>
                         refs[n] = before[t].refs[n] /\ lockfiles[n] # Absent
                  /\ (pc[t] = "rm_ref" /\ cursor[t] = i) =>
                         and_reference /\ n \notin reflogs /\ lockfiles[n] # Absent
                  /\ (pc[t] = "unlock" /\ cursor[t] = i) =>
                         removed /\ lockfiles[n] # Absent
                  /\ Deleted(t, i) => removed /\ lockfiles[n] = Absent

\* commit() returned after a deletion that left HEAD in place and one that
\* removed main, which had a reflog.
C7_Witness ==
    /\ pc[1] = "committed"
    /\ NumEdits(1) = 2
    /\ updates[1][1].update.change = "Delete"
    /\ updates[1][1].update.mode = "Only"
    /\ updates[1][2].update.change = "Delete"
    /\ updates[1][2].update.mode = "AndReference"
    /\ before[1].refs["main"] = Peeled(1)
    /\ reflogs = {}

\* The edit as prepare() found it, before `previous` was overwritten.
Asked(t, i) == before[t].edits[i].update

\* prepare() failed in lock_ref_and_apply_change for the edit at the cursor.
FailedAtEdit(t) ==
    pc[t] = "failed" /\ state[t] = "Open" /\ cursor[t] \in 1..NumEdits(t)

\* C8: a deletion that expects a non-null id of a reference holding another
\* target fails prepare() with DeleteReferenceOutOfDate, which carries the
\* expected and the stored target and leaves the reference and its lock file
\* alone; a deletion is accepted only if the reference holds what it expects.
C8_DeleteOutOfDate ==
    \A t \in Txs :
        /\ returned[t].kind = "DeleteReferenceOutOfDate" =>
              /\ FailedAtEdit(t)
              /\ LET asked == Asked(t, cursor[t]) IN
                    /\ asked.change = "Delete"
                    /\ asked.previous.k = "Peeled" /\ ~IsNull(asked.previous)
                    /\ returned[t].full_name = asked.name
                    /\ returned[t].expected = asked.previous
                    /\ returned[t].actual = refs[asked.name]
                    /\ returned[t].actual # returned[t].expected
                    /\ lockfiles[asked.name] = Absent
              /\ refs = before[t].refs
              /\ Held(t) = {}
        /\ \A i \in 1..NumEdits(t) :
              LET asked == Asked(t, i) IN
              ( /\ updates[t][i].lock
                /\ asked.change = "Delete"
                /\ asked.previous.k # "None"
                /\ ~IsNull(asked.previous) ) =>
                    refs[asked.name] = asked.previous

\* prepare() refused to delete main, expected at id 1 and found at id 2.
C8_Witness ==
    /\ FailedAtEdit(1)
    /\ returned[1] = Error("DeleteReferenceOutOfDate", "main", Peeled(1), Peeled(MaxOid))

\* C9 as stated: a deletion expecting the null id of a reference that does
\* not exist is accepted, prepare() reporting neither that the reference must
\* exist nor that it is out of date.
C9_NullAcceptsAbsent ==
    \A t \in Txs :
        ( /\ FailedAtEdit(t)
          /\ Asked(t, cursor[t]).change = "Delete"
          /\ IsNull(Asked(t, cursor[t]).previous)
          /\ ~Decodes(refs[Asked(t, cursor[t]).name]) ) =>
              returned[t].kind \notin
                  {"DeleteReferenceMustExist", "DeleteReferenceOutOfDate"}

\* C9, amended: a deletion that expects nothing is accepted whether or not
\* the reference exists; one that expects the null id is accepted with any
\* target of an existing reference, and fails prepare() with
\* DeleteReferenceMustExist when the reference does not exist.
C9_NullNeedsExisting ==
    \A t \in Txs :
        /\ FailedAtEdit(t) /\ Asked(t, cursor[t]).change = "Delete" =>
              LET asked == Asked(t, cursor[t])
                  refused == returned[t].kind \in
                      {"DeleteReferenceMustExist", "DeleteReferenceOutOfDate"}
              IN  /\ asked.previous.k = "None" => ~refused
                  /\ IsNull(asked.previous) =>
                        (refused <=> ( /\ ~Decodes(refs[asked.name])
                                       /\ returned[t].kind = "DeleteReferenceMustExist"
                                       /\ returned[t].full_name = asked.name ))
        /\ \A i \in 1..NumEdits(t) :
              ( /\ updates[t][i].lock
                /\ Asked(t, i).change = "Delete"
                /\ IsNull(Asked(t, i).previous) ) =>
                    Decodes(refs[Asked(t, i).name])

\* prepare() refused to delete main, expected at the null id and not there.
C9_Witness ==
    /\ FailedAtEdit(1)
    /\ returned[1].kind = "DeleteReferenceMustExist"
    /\ Asked(1, cursor[1]).name = "main"
    /\ IsNull(Asked(1, cursor[1]).previous)
    /\ refs["main"] = Absent

\* C10: prepare() does not abort at an update, whatever it expects of the
\* reference, and an update expecting the null id is not refused for the
\* target the reference holds.
C10_UpdateNeverAborts ==
    \A t \in Txs :
        ( /\ state[t] = "Open"
          /\ cursor[t] \in 1..NumEdits(t)
          /\ Asked(t, cursor[t]).change = "Update" ) =>
              /\ pc[t] # "panicked"
              /\ (pc[t] = "failed" /\ IsNull(Asked(t, cursor[t]).previous)) =>
                    returned[t].kind \in {"Io", "LockAcquire"}

\* prepare() was called on a Prepared transaction.
PreparedAgain(t) ==
    pc[t] = "prepared" /\ state[t] = "Prepared" /\ prepares'[t] = prepares[t] + 1

\* C11: prepare() on a Prepared transaction returns it as it is: the edits
\* with their locks and parent links, the lock files with what was staged in
\* them, the references and the state are the same, and the transaction is
\* not back in the loop over its edits.
C11_PrepareIdempotent ==
    [][\A t \in Txs :
          PreparedAgain(t) =>
              /\ updates'[t] = updates[t]
              /\ Held(t)' = Held(t)
              /\ state'[t] = "Prepared"
              /\ pc'[t] = "prepared"
              /\ cursor'[t] = cursor[t]
              /\ before'[t] = before[t]
              /\ store_vars' = store_vars]_vars

\* prepare() was called twice on a transaction that split an edit, staged a
\* target and holds two locks.
C11_Witness ==
    /\ pc[1] = "prepared"
    /\ prepares[1] = 2
    /\ Held(1) = Names
    /\ \E i \in 1..NumEdits(1) : updates[1][i].index.k = "Parent"
    /\ \E n \in Names : lockfiles[n] \notin {Absent, Empty}

\* commit() is at work on the transaction.
InCommit(t) ==
    pc[t] \in {"commit_update", "rm_reflog", "rm_ref", "unlock", "committed"}

\* The errors prepare() returns.
PrepareErrors ==
    {"PreprocessingFailed", "LockAcquire", "Io", "DeleteReferenceMustExist",
     "DeleteReferenceOutOfDate"}

\* C12: a Prepared transaction never is Open again and only a Prepared one is
\* committed; commit() on an Open transaction prepares it as prepare() does,
\* and goes on to its loops once it is Prepared; if that prepare() fails,
\* commit() returns its error with every reference and reflog as it was.
C12_CommitPrepares ==
    /\ [][\A t \in Txs :
             /\ state[t] = "Prepared" => state'[t] = "Prepared"
             /\ (pc[t] = "open" /\ pc'[t] # "open") =>
                   /\ prepares'[t] = prepares[t] + 1
                   /\ pc'[t] \in {"read", "invert", "failed"}
                   /\ state'[t] = "Open"
             /\ (via_commit[t] /\ pc[t] = "prepared" /\ pc'[t] # "prepared") =>
                   InCommit(t)' \/ pc'[t] = "panicked"]_vars
    /\ [](\A t \in Txs :
             /\ InCommit(t) => state[t] = "Prepared" /\ prepares[t] >= 1
             /\ (via_commit[t] /\ pc[t] = "failed" /\ state[t] = "Open") =>
                   /\ returned[t].kind \in PrepareErrors
                   /\ refs = before[t].refs
                   /\ reflogs = before[t].reflogs
                   /\ lockfiles = before[t].lockfiles)

\* commit() on an Open transaction failed to lock its second edit.
C12_Witness ==
    /\ via_commit[1]
    /\ pc[1] = "failed"
    /\ state[1] = "Open"
    /\ cursor[1] = 2
    /\ returned[1].kind = "LockAcquire"

\* commit() returned an error.
CommitFailed(t) == pc[t] = "failed" /\ state[t] = "Prepared"

\* The update at `i` was moved into place before commit() failed: the first
\* loop was past it.
MovedBeforeFailure(t, i) ==
    /\ updates[t][i].update.change = "Update"
    /\ returned[t].kind = "Io" => i < cursor[t]

\* The second loop was past the deletion at `i` when commit() failed.
DeletedBeforeFailure(t, i) ==
    /\ updates[t][i].update.change = "Delete"
    /\ returned[t].kind \in {"DeleteReflog", "DeleteReference"}
    /\ i < cursor[t]

\* C13: once a failed commit() has returned, every update that was moved into
\* place holds its new target, every other edit that the loops were not past
\* has the reference it had, and no lock file of any edit is left.
C13_CommitFailureForward ==
    \A t \in Txs :
        CommitFailed(t) =>
            /\ returned[t].kind \in {"Io", "DeleteReflog", "DeleteReference"}
            /\ Held(t) = {}
            /\ \A i \in 1..NumEdits(t) :
                  LET u == updates[t][i].update IN
                  /\ lockfiles[u.name] = Absent
                  /\ MovedBeforeFailure(t, i) => refs[u.name] = Staged(u.new)
                  /\ (~MovedBeforeFailure(t, i) /\ ~DeletedBeforeFailure(t, i)) =>
                        refs[u.name] = before[t].refs[u.name]

\* commit() moved HEAD into place and then failed to remove the reflog of
\* main, which is still there.
C13_Witness ==
    /\ CommitFailed(1)
    /\ returned[1].kind = "DeleteReflog"
    /\ NumEdits(1) = 2
    /\ updates[1][2].update.change = "Update"
    /\ refs[updates[1][2].update.name] = Symbolic("main")
    /\ before[1].refs["HEAD"] = Peeled(1)
    /\ refs["main"] = Peeled(1)

\* The edits commit() returned say what the references held: `previous` of
\* every edit of a reference that existed is the target it had.
ReturnedEditsTellPrevious(t) ==
    pc[t] = "committed" =>
        /\ CallerEdits(t).ok
        /\ \A i \in 1..NumEdits(t) :
              LET u == CallerEdits(t).val[i] IN
              Decodes(before[t].refs[u.name]) => u.previous = before[t].refs[u.name]

\* C14: after a commit() that failed the caller has the edits of the
\* transaction, and after one that succeeded the returned edits hold in
\* `previous` the target every existing reference had.
C14_EditsAfterCommit ==
    \A t \in Txs :
        /\ CommitFailed(t) =>
              CallerEdits(t).ok /\ Len(CallerEdits(t).val) = NumEdits(t)
        /\ ReturnedEditsTellPrevious(t)

\* The heuristic returned for a call whose total is known or not.
Optimized(known) ==
    /\ result.fn = "optimize_chunk_size_and_thread_limit"
    /\ call.num_items.some = known

\* The chunks of `size` items it takes to cover `n` items.
ChunksToCover(n, size) == (n + size - 1) \div size

\* C16: with a known total, the chunks of the returned size that cover the
\* items are at least twice as many as the returned threads.
C16_TwoChunksPerThread ==
    Optimized(TRUE) =>
        ChunksToCover(call.num_items.v, result.val[1])
            >= desired_chunks_per_thread_at_least * result.val[3]

\* C17 as stated: without a total, the returned chunk size is within
\* [lower, upper].
C17_ChunkSizeClamped ==
    Optimized(FALSE) => lower <= result.val[1] /\ result.val[1] <= upper

\* C17, amended: without a total, the returned chunk size is the desired one
\* if one thread is to be used, and within [lower, upper] otherwise.
C17_ChunkSizeClampedUnlessOneThread ==
    Optimized(FALSE) =>
        IF result.val[3] = 1
        THEN result.val[1] = call.desired_chunk_size
        ELSE lower <= result.val[1] /\ result.val[1] <= upper

\* One thread is to be used and a chunk size above `upper` was returned.
C17_Witness ==
    /\ Optimized(FALSE)
    /\ result.val[3] = 1
    /\ result.val[1] = upper + 1

IsEntry(item) == item.k = "entry"
Written == SelectSeq(output, IsEntry)

\* The whole pack of the counts: header, an entry for every count in the
\* order of the counts, trailer.
WholePack ==
    <<Header(Len(counts))>> \o [j \in 1..Len(counts) |-> Entry(j)] \o <<Trailer>>

\* create() is past its loop.
Serialized == pack_pc \in {"flush", "done", "flush_failed"}

\* C15: whatever the number of threads and the order in which they finish,
\* the entries are written in the order of the counts, those of a chunk before
\* those of the next, and a finished pack is the same for the same counts.
C15_EntriesInInputOrder ==
    /\ \A j \in 1..Len(Written) : Written[j].n = j
    /\ Len(Written) > 0 => output[1] = Header(Len(counts))
    /\ Serialized => output = WholePack

\* Two threads are at work, the first chunk is written, and the serializer
\* holds back the third chunk, which arrived before the second.
C15_Witness ==
    /\ pack_pc = "running"
    /\ result.val[3] >= 2
    /\ expected = 1
    /\ Len(Written) >= 1
    /\ \E c \in pending : c.chunk_id = 2
    /\ ~HasExpected

\* A count has no object.
AnyMissing == \E i \in 1..Len(counts) : counts[i] = "missing"

\* The counts of the chunk that count `i` is in.
ChunkOf(i) ==
    {j \in 1..Len(counts) :
        (j - 1) \div chunks.iter.size = (i - 1) \div chunks.iter.size}

\* The counts whose entries the reducer passed on: those held back and those
\* written.
Fed == UNION {{c.entries[j] : j \in 1..Len(c.entries)} : c \in pending}
           \cup {Written[j].n : j \in 1..Len(Written)}

\* C19: a chunk with a count that has no object yields an error and no
\* entry, and adds nothing to the total; the first error that create() gets
\* ends it, nothing more is pulled or written, and without such an error
\* create() does not get past its loop with any count missing.
C19_ChunkErrorReportedOnce ==
    /\ [](/\ \A i \in Fed : \A j \in ChunkOf(i) : counts[j] # "missing"
          /\ \A k \in 1..Len(channel) :
                ~channel[k].ok =>
                    channel[k].entries = <<>> /\ channel[k].stats = Outcome(0, 0)
          /\ total = Outcome(Cardinality({i \in Fed : counts[i] = "decode"}),
                             Cardinality({i \in Fed : counts[i] = "copy"}))
          /\ yielded_errors <= 1
          /\ pack_pc = "failed" <=> yielded_errors = 1
          /\ (pack_pc = "failed" /\ sink = "ok") => AnyMissing
          /\ Serialized => ~AnyMissing)
    /\ [][pack_pc = "failed" => UNCHANGED pack_vars]_vars

\* With two threads at work, create() wrote the first chunk and then got the
\* error of another chunk, while a result is still waiting in the channel.
C19_Witness ==
    /\ pack_pc = "failed"
    /\ sink = "ok"
    /\ result.val[3] >= 2
    /\ Len(Written) >= 1
    /\ total # Outcome(0, 0)
    /\ channel # <<>>

\* The trailer was written.
HasTrailer == \E j \in 1..Len(output) : output[j] = Trailer

\* C20: the trailer is in the output only after every chunk was written and
\* no error was yielded, and it is not there if create() stopped at an error
\* of a chunk or of a write.
C20_NoTrailerAfterError ==
    /\ HasTrailer => output = WholePack /\ yielded_errors = 0 /\ Serialized
    /\ pack_pc = "failed" => ~HasTrailer
    /\ yielded_errors > 0 => ~HasTrailer

\* Every entry was written and the write of the trailer failed.
C20_Witness ==
    /\ pack_pc = "failed"
    /\ sink = "broken"
    /\ Len(counts) = MaxCounts
    /\ Len(Written) = Len(counts)
    /\ Exhausted
    /\ ~HasTrailer

\* The call that a step makes on the writer, if it makes one.
WriterCalled == Len(write_log') = Len(write_log) + 1
TheCall == write_log'[Len(write_log')]

\* What a step put on the stream.
Sent == skip(line_writer'.inner, len(line_writer.inner))

\* A writer in this mode takes the buffer: it is not empty, and as text it
\* leaves room for the line feed.
Takes(binary, buf) == ~is_empty(buf) /\ (binary \/ len(buf) < MAX_DATA_LEN)

\* C21: write() with an empty buffer returns an error in either mode and
\* leaves the stream and the writer as they were, and a write that the writer
\* would have taken before is taken after it.
C21_EmptyWriteRefused ==
    /\ [][(WriterCalled /\ TheCall.op = "write" /\ is_empty(TheCall.buf)) =>
             /\ ~TheCall.ok
             /\ TheCall.error = "Other"
             /\ line_writer' = line_writer
             /\ writer_pc' = "open"]_vars
    /\ [](\A i, j \in 1..Len(write_log) :
             ( /\ i < j
               /\ write_log[i].op = "write" /\ is_empty(write_log[i].buf)
               /\ write_log[j].op = "write"
               /\ Takes(write_log[j].binary, write_log[j].buf) ) =>
                   write_log[j].ok /\ write_log[j].n = len(write_log[j].buf))

\* An empty buffer was refused in text mode, and then a buffer was written in
\* binary mode.
C21_Witness ==
    /\ Len(write_log) = 2
    /\ is_empty(write_log[1].buf) /\ ~write_log[1].ok /\ ~write_log[1].binary
    /\ write_log[2].op = "write" /\ write_log[2].ok /\ write_log[2].binary
    /\ len(line_writer.inner) = len(write_log[2].buf) + U16_HEX_BYTES

\* The data of lines, one after the other.
RECURSIVE Joined(_)
Joined(lines) ==
    IF lines = <<>> THEN <<>> ELSE concat(lines[1].data, Joined(Tail(lines)))

\* C22: a write of a buffer that is not empty, in binary mode, appends data
\* lines to the stream that all but the last carry MAX_DATA_LEN bytes, and
\* that read back one after the other give the buffer.
C22_BinaryWriteRoundTrips ==
    [][(WriterCalled /\ TheCall.op = "write" /\ TheCall.binary
            /\ ~is_empty(TheCall.buf)) =>
          LET lines == decode_all(Sent) IN
          /\ TheCall.ok
          /\ TheCall.n = len(TheCall.buf)
          /\ take(line_writer'.inner, len(line_writer.inner)) = line_writer.inner
          /\ \A i \in 1..Len(lines) : lines[i].k = "Data"
          /\ \A i \in 1..(Len(lines) - 1) : len(lines[i].data) = MAX_DATA_LEN
          /\ Joined(lines) = TheCall.buf]_vars

\* A buffer of more than twice MAX_DATA_LEN bytes was written in binary mode
\* after another, and is on the stream in three lines.
C22_Witness ==
    /\ Len(write_log) = 2
    /\ write_log[1].ok /\ write_log[1].buf = hello
    /\ write_log[2].ok /\ write_log[2].binary
    /\ len(write_log[2].buf) > 2 * MAX_DATA_LEN
    /\ Len(decode_all(line_writer.inner)) = 4

\* The lines that the writes so far are to have put on the stream, and the
\* bytes of data in them.
LinesOf(made) ==
    IF made.op = "write" /\ made.ok
    THEN (len(made.buf) + MAX_DATA_LEN - 1) \div MAX_DATA_LEN
    ELSE 0
RECURSIVE SumOver(_, _)
SumOver(log, i) ==
    IF i = 0 THEN [lines |-> 0, data |-> 0]
    ELSE LET before_i == SumOver(log, i - 1)
             lines == LinesOf(log[i])
         IN  [lines |-> before_i.lines + lines,
              data |-> before_i.data
                          + (IF lines > 0 THEN len(log[i].buf) ELSE 0)
                          + (IF log[i].binary THEN 0 ELSE lines)]

\* C23: whatever was written in either mode, the stream is made of lines
\* whose four hex digits tell their whole length, which is at least 5 and at
\* most MAX_LINE_LEN, so that none begins with 0000, 0001, 0002 or 0004,
\* close() apart; the lines are those of the writes, a line feed added to
\* each in text mode.
C23_FramesWellFormed ==
    LET lines == decode_all(line_writer.inner)
        data_lines == IF writer_pc = "closed"
                      THEN SubSeq(lines, 1, Len(lines) - 1) ELSE lines
        due == SumOver(write_log, Len(write_log))
    IN  /\ \A i \in 1..Len(data_lines) :
              /\ data_lines[i].k = "Data"
              /\ len(data_lines[i].data) + U16_HEX_BYTES >= 5
              /\ len(data_lines[i].data) + U16_HEX_BYTES <= 65520
              /\ len(data_lines[i].data) + U16_HEX_BYTES <= MAX_LINE_LEN
        /\ writer_pc = "closed" => lines[Len(lines)] = FlushLine
        /\ Len(data_lines) = due.lines
        /\ len(Joined(data_lines)) = due.data
        /\ len(line_writer.inner) =
              due.data + U16_HEX_BYTES * Len(lines)

\* A line of text and a buffer longer than a line were written.
C23_Witness ==
    /\ Len(write_log) = 2
    /\ write_log[1].ok /\ ~write_log[1].binary
    /\ write_log[2].ok /\ write_log[2].binary
    /\ len(write_log[2].buf) = MAX_DATA_LEN + 1
    /\ Len(decode_all(line_writer.inner)) = 3

\* hello and world were written in the same mode, and the stream was closed.
HelloWorldClosed(binary) ==
    /\ Len(write_log) = 3
    /\ write_log[1].op = "write" /\ write_log[1].buf = hello
    /\ write_log[1].binary = binary
    /\ write_log[2].op = "write" /\ write_log[2].buf = world
    /\ write_log[2].binary = binary
    /\ write_log[3].op = "close"

\* "000ahello\n000aworld\n0000"
HelloWorldAsText ==
    bytes(<<"0", "0", "0", "a", "h", "e", "l", "l", "o", LF,
            "0", "0", "0", "a", "w", "o", "r", "l", "d", LF,
            "0", "0", "0", "0">>)

\* "0009hello0009world0000"
HelloWorldAsData ==
    bytes(<<"0", "0", "0", "9", "h", "e", "l", "l", "o",
            "0", "0", "0", "9", "w", "o", "r", "l", "d",
            "0", "0", "0", "0">>)

\* C24 as stated: hello and world written in binary mode and close() put
\* "000ahello\n000aworld\n0000" on the stream.
C24_BinaryHelloWorld ==
    HelloWorldClosed(TRUE) => line_writer.inner = HelloWorldAsText

\* C24, amended: hello and world written in text mode and close() put
\* "000ahello\n000aworld\n0000" on the stream, a line for each write in the
\* order of the writes and one flush line; in binary mode no line feed is
\* added and the stream is "0009hello0009world0000".
C24_TextHelloWorld ==
    /\ HelloWorldClosed(FALSE) => line_writer.inner = HelloWorldAsText
    /\ HelloWorldClosed(TRUE) => line_writer.inner = HelloWorldAsData

\* hello and world were written in text mode and the stream was closed.
C24_Witness == HelloWorldClosed(FALSE) /\ writer_pc = "closed"

\* A line of text: four hex digits that give the length of all of it, the
\* text, and a line feed.
TextFrame(text) ==
    concat(u16_to_hex(U16_HEX_BYTES + len(text) + 1), concat(text, bytes(<<LF>>)))

\* The lines of the write calls that returned Ok, in the order of the calls.
RECURSIVE FramesOf(_)
FramesOf(writes) ==
    IF writes = <<>> THEN <<>>
    ELSE concat(IF writes[1].ok THEN TextFrame(writes[1].buf) ELSE <<>>,
                FramesOf(Tail(writes)))

\* The message that ends a request.
Terminator(kind) ==
    IF kind.k = "Flush" THEN bytes(<<"0", "0", "0", "0">>)
    ELSE IF kind.k = "Delimiter" THEN bytes(<<"0", "0", "0", "1">>)
    ELSE TextFrame(kind.data)

\* What was sent since the request was made.
SentSinceRequest == skip(connection.writer, request_writer.start)

\* C25: of a request in OneLFTerminatedLinePerWriteCall mode the bytes sent
\* are, with nothing else in between, one line per write call that the writer
\* took, of that call's bytes and one LF, in the order of the calls; then,
\* not before into_read() was called, the one terminator that was asked for;
\* then, after close(), one flush line.
C25_TextRequestBytes ==
    (request_writer.state # "none"
        /\ request_writer.write_mode = "OneLFTerminatedLinePerWriteCall") =>
      SentSinceRequest =
          concat(FramesOf(request_writer.writes),
                 concat(IF request_writer.state \in {"reading", "dropped"}
                        THEN Terminator(request_writer.on_into_read) ELSE <<>>,
                        IF conn_pc = "closed"
                        THEN bytes(<<"0", "0", "0", "0">>) ELSE <<>>))

\* "hello" and "world" were written to a request that ends in the text
\* "done", the response was read to its end, and the connection was closed.
C25_Witness ==
    /\ conn_pc = "closed"
    /\ request_writer.write_mode = "OneLFTerminatedLinePerWriteCall"
    /\ request_writer.on_into_read = KindText(done)
    /\ request_writer.writes = <<[buf |-> hello, ok |-> TRUE], [buf |-> world, ok |-> TRUE]>>
    /\ ReadsAtEnd("response") > 0
    /\ SentSinceRequest =
          bytes(<<"0", "0", "0", "a", "h", "e", "l", "l", "o", LF,
                  "0", "0", "0", "a", "w", "o", "r", "l", "d", LF,
                  "0", "0", "0", "9", "d", "o", "n", "e", LF,
                  "0", "0", "0", "0">>)

\* The handshake has read the response.
HandshakeDone == response.state # "none"

\* The text of the first line of the response, if it is a data line.
FirstText ==
    IF server_response # <<>> /\ server_response[1].k = "Data"
    THEN to_text(server_response[1].data) ELSE <<>>

\* A data line of at least four bytes that begins with "ERR ".
IsErrLine(line) ==
    /\ line.k = "Data"
    /\ len(line.data) >= 4
    /\ take(line.data, 4) = bytes(<<"E", "R", "R", SP>>)

\* The response begins with a data line that is no ERR line.
HasFirstLine ==
    /\ server_response # <<>>
    /\ server_response[1].k = "Data"
    /\ ~IsErrLine(server_response[1])

\* The first line is "version 2".
IsVersion2 == FirstText = bytes(<<"v", "e", "r", "s", "i", "o", "n", SP, "2">>)

\* The lines from the i-th on up to the first flush line, each without its
\* newline, joined by newlines.
RECURSIVE JoinedUntilFlush(_, _)
JoinedUntilFlush(lines, i) ==
    IF i > Len(lines) \/ lines[i].k = "Flush" THEN <<>>
    ELSE IF i + 1 > Len(lines) \/ lines[i + 1].k = "Flush"
    THEN to_text(lines[i].data)
    ELSE concat(to_text(lines[i].data),
                concat(bytes(<<LF>>), JoinedUntilFlush(lines, i + 1)))

\* The step in which the handshake reads the response.
HandshakeStep == ~HandshakeDone /\ response'.state # "none"

\* What the handshake returns after it took the first line for one of V2 or
\* of V1: V2 takes nothing but "version 2" and has the capabilities from the
\* lines up to the flush line and no refs, V1 has the capabilities from
\* behind the first NUL of the first line and refs.
ProceedsAsDetected(outcome) ==
    /\ (outcome.detected = V2 /\ outcome.state = "ok") =>
          /\ IsVersion2
          /\ outcome.actual_protocol = V2
          /\ outcome.capabilities = JoinedUntilFlush(server_response, 2)
          /\ outcome.value_sep = LF
          /\ ~outcome.refs
    /\ (outcome.detected = V2 /\ ~IsVersion2) =>
          /\ outcome.state = "err"
          /\ outcome.error \in {"UnsupportedVersion", "MalformattedVersionLine"}
    /\ (outcome.detected = V1 /\ outcome.state = "ok") =>
          /\ outcome.actual_protocol = V1
          /\ find_byte(FirstText, NUL) >= 0
          /\ outcome.capabilities = skip(FirstText, find_byte(FirstText, NUL) + 1)
          /\ outcome.value_sep = SP
          /\ outcome.refs

\* C26 (as stated): a first line that begins with "version " and ends with
\* " 2" is taken for V2, every other first line for V1.
C26_V2OnlyIfEndsWith2 ==
    [][(HandshakeStep /\ HasFirstLine) =>
          /\ response'.detected \in {V1, V2}
          /\ response'.detected = V2 <=>
                (starts_with(FirstText, version_sp) /\ ends_with(FirstText, sp_2))
          /\ ProceedsAsDetected(response')]_vars

\* C26 (amended): the handshake looks at the first line only: one that begins
\* with "version " and does not end with " 1" is taken for V2, where nothing
\* but "version 2" is accepted and another version is an error; every other
\* first line, "version 1" and a line that is no version line among them, is
\* taken for V1.
C26_V2UnlessEndsWith1 ==
    [][(HandshakeStep /\ HasFirstLine) =>
          /\ response'.detected \in {V1, V2}
          /\ response'.detected = V2 <=>
                (starts_with(FirstText, version_sp) /\ ~ends_with(FirstText, sp_1))
          /\ ProceedsAsDetected(response')]_vars

\* The first line was "version 3": it was taken for V2 and refused.
C26_Witness ==
    /\ HandshakeDone
    /\ response.detected = V2
    /\ response.error = "UnsupportedVersion"
    /\ FirstText = bytes(<<"v", "e", "r", "s", "i", "o", "n", SP, "3">>)

\* The response is one of V1: its first line is no version line and has
\* capabilities behind a NUL.
IsV1Response ==
    /\ HasFirstLine
    /\ ~starts_with(FirstText, version_sp)
    /\ find_byte(FirstText, NUL) \in 0..(len(FirstText) - 2)

\* What the reader of the refs gave to the caller.
RefsRead == SelectSeq(received, LAMBDA r : r.reader = "refs")

\* C27: a connection that asks for V2 and gets the response of V1 has a
\* handshake without error, with V1 as the actual protocol and with refs,
\* whose first line is the first line of the response without the
\* capabilities, and it still asks for V2 afterwards; and a handshake that
\* found V2 has no refs.
C27_DowngradeToV1 ==
    /\ [][(HandshakeStep /\ connection.desired_version = V2 /\ IsV1Response) =>
             /\ response'.state = "ok"
             /\ response'.actual_protocol = V1
             /\ response'.refs
             /\ conn_pc' = "refs"]_vars
    /\ [][(conn_pc = "refs" /\ received = <<>> /\ received' # <<>>
               /\ connection.desired_version = V2) =>
             received'[1] =
                Received("refs",
                    Item(DataLine(concat(take(FirstText, find_byte(FirstText, NUL)),
                                         bytes(<<LF>>)))))]_vars
    /\ [][desired_protocol_version(connection')
             = desired_protocol_version(connection)]_vars
    /\ [](response.actual_protocol = V2 => ~response.refs)

\* A connection that asked for V2 got the response of V1, and the caller has
\* read the refs to their end.
C27_Witness ==
    /\ conn_pc = "refs"
    /\ connection.desired_version = V2
    /\ desired_protocol_version(connection) = V2
    /\ response.actual_protocol = V1
    /\ Len(RefsRead) = 3
    /\ RefsRead[1].item.data = bytes(<<"r", "1", LF>>)
    /\ RefsRead[3].item.k = "eof"

\* The connect message of a connection, as the documentation of the protocol
\* has it: service, space, path, NUL; "host=", the host and, with a colon
\* before it, the port, NUL, if a virtual host is given or `with_host` says
\* that it is there in any case; NUL, "version=", the number, NUL, if the
\* desired protocol is not V1.
ConnectPayload(with_host) ==
    LET vhost == connection.virtual_host
        host == IF is_some(vhost) THEN unwrap(vhost)[1] ELSE <<>>
        port == IF is_some(vhost) /\ is_some(unwrap(vhost)[2])
                THEN concat(bytes(<<":">>), decimal(unwrap(unwrap(vhost)[2])))
                ELSE <<>>
    IN  concat(bytes(<<"g", "i", "t", "-", "u", "p", "l", "o", "a", "d", "-",
                       "p", "a", "c", "k", SP>>),
        concat(connection.path,
        concat(bytes(<<NUL>>),
        concat(IF with_host
               THEN concat(bytes(<<"h", "o", "s", "t", "=">>),
                           concat(host, concat(port, bytes(<<NUL>>))))
               ELSE <<>>,
               IF connection.desired_version # V1
               THEN concat(bytes(<<NUL, "v", "e", "r", "s", "i", "o", "n", "=">>),
                           concat(decimal(connection.desired_version),
                                  bytes(<<NUL>>)))
               ELSE <<>>))))

\* What handshake() has written, and that it had read nothing before it had
\* written it: to a daemon one line with the payload, to a process nothing.
HandshakeWrote(with_host) ==
    /\ (conn_pc \in {"greeted", "refs", "idle", "failed"}
            /\ request_writer.state = "none") =>
          connection.writer =
              IF connection.mode = "Daemon"
              THEN concat(u16_to_hex(U16_HEX_BYTES + len(ConnectPayload(with_host))),
                          ConnectPayload(with_host))
              ELSE <<>>
    /\ conn_pc \in {"new", "greeted"} =>
          /\ line_provider.pos = 0
          /\ is_none(line_provider.peek_buffer)
          /\ received = <<>>
          /\ ~HandshakeDone

ReadStep == Len(received') = Len(received) + 1
ItemRead == received'[Len(received')].item

\* The line that is next to be read, if there is one.
HasInput ==
    is_some(line_provider.peek_buffer) \/ line_provider.pos < Len(server_response)
NextInput ==
    IF is_some(line_provider.peek_buffer) THEN unwrap(line_provider.peek_buffer)
    ELSE server_response[line_provider.pos + 1]

\* The indices of the ERR lines among the capabilities of a V2 response.
ErrAmongCapabilities ==
    {i \in 2..Len(server_response) :
        /\ IsErrLine(server_response[i])
        /\ \A j \in 2..(i - 1) : server_response[j].k = "Data"}

\* The index of the ERR line that the handshake meets, 0 if it meets none:
\* the first line, or a line among the capabilities of "version 2".
ErrInHandshake ==
    IF server_response = <<>> THEN 0
    ELSE IF IsErrLine(server_response[1]) THEN 1
    ELSE IF IsVersion2 /\ ErrAmongCapabilities # {} THEN Min(ErrAmongCapabilities)
    ELSE 0

\* C29: from the handshake on the line provider fails on ERR lines, in the
\* handshake, in the refs and in the response to a request; a line that is
\* read then is an error, with the rest of the line as its payload, exactly if
\* it is a data line of at least 4 bytes that begins with "ERR ", and after
\* the error the reader gives nothing more.
C29_ErrLinesAreFatal ==
    /\ [](HandshakeDone => line_provider.fail_on_err)
    /\ [][HandshakeStep =>
             /\ line_provider'.fail_on_err
             /\ (response'.state = "err" /\ response'.error = "Io")
                    <=> ErrInHandshake # 0
             /\ ErrInHandshake # 0 =>
                    /\ response'.payload =
                          skip(server_response[ErrInHandshake].data, 4)
                    /\ line_provider'.is_done]_vars
    /\ [][(ReadStep /\ ~line_provider.is_done /\ HasInput) =>
             /\ ItemRead.k = "error" <=> IsErrLine(NextInput)
             /\ IsErrLine(NextInput) =>
                    /\ ItemRead.data = skip(NextInput.data, 4)
                    /\ line_provider'.is_done]_vars
    /\ [](\A i, j \in 1..Len(received) :
             (i < j /\ received[i].reader = received[j].reader
                    /\ received[i].item.k = "error") =>
                received[j].item.k = "eof")

\* The response to a request had an ERR line: the reader gave the line before
\* it, then the error with the rest of the line, then nothing more.
C29_Witness ==
    /\ conn_pc = "reading"
    /\ Len(received) >= 2
    /\ received[Len(received) - 1] =
          Received("response", Failure(bytes(<<"x">>)))
    /\ received[Len(received)] = Received("response", Eof)

\* The index of the first flush line from the i-th line on, 0 if there is none.
FlushFrom(i) ==
    LET flushes == {j \in i..Len(server_response) : server_response[j].k = "Flush"}
    IN  IF flushes = {} THEN 0 ELSE Min(flushes)

\* The lines that a reader gave to the caller.
LinesRead(reader) ==
    SelectSeq(received, LAMBDA r : r.reader = reader /\ r.item.k = "line")

\* The reader of the refs was read to the flush line.
RefsReadToEnd ==
    \E i \in 1..Len(received) :
        received[i].reader = "refs" /\ received[i].item.k = "eof"

\* C30: the line provider of the connection stops at a flush line: the read
\* that meets one gives the end of the input, every read after it gives the
\* end of the input and takes nothing from the stream, until the provider is
\* reset, which is when a request is made; so the refs of a V1 handshake are
\* the lines before the first flush line, and the lines behind it go to the
\* reader of the response to the next request, up to the flush line after
\* them.
C30_ReaderStopsAtFlush ==
    /\ [][ReadStep =>
             /\ line_provider.is_done =>
                    /\ ItemRead.k = "eof"
                    /\ line_provider'.pos = line_provider.pos
                    /\ line_provider'.is_done
             /\ (~line_provider.is_done /\ HasInput /\ NextInput.k = "Flush") =>
                    /\ ItemRead.k = "eof"
                    /\ line_provider'.pos = line_provider.pos + 1
                    /\ line_provider'.is_done
             /\ ItemRead.k = "line" => ItemRead.of = "Data"]_vars
    /\ [][(line_provider.is_done /\ ~line_provider'.is_done) =>
             (conn_pc = "idle" /\ conn_pc' = "writing")]_vars
    /\ [](LET first_flush == FlushFrom(1)
               refs_read == LinesRead("refs")
               response_read == LinesRead("response")
           IN  /\ \A j \in 1..Len(refs_read) :
                     /\ first_flush = 0 \/ j < first_flush
                     /\ j > 1 => refs_read[j].item.data = server_response[j].data
               /\ (response.state = "ok" /\ first_flush # 0
                       /\ (response.refs => RefsReadToEnd)) =>
                     \A j \in 1..Len(response_read) :
                         /\ first_flush + j <= Len(server_response)
                         /\ FlushFrom(first_flush + 1) \in {0} \cup
                                ((first_flush + j + 1)..Len(server_response))
                         /\ response_read[j].item.data =
                               server_response[first_flush + j].data)

\* The refs of a V1 handshake were read up to the flush line and once more,
\* and the reader of the response gave the line behind the flush line and
\* then the end of the input.
C30_Witness ==
    /\ conn_pc = "reading"
    /\ response.actual_protocol = V1
    /\ Len(LinesRead("refs")) = 2
    /\ ReadsAtEnd("refs") = 2
    /\ LinesRead("response") = <<Received("response", Item(Nak))>>
    /\ ReadsAtEnd("response") = 1
    /\ line_provider.pos = Len(server_response)

\* C40: write() of a buffer that is not empty never reaches unreachable!()
\* and returns the length of the buffer, in binary mode and in text mode.
C40_WriteNeverUnreachable ==
    /\ writer_pc # "panicked"
    /\ \A i \in 1..Len(write_log) :
          (write_log[i].op = "write" /\ ~is_empty(write_log[i].buf)) =>
              write_log[i].ok /\ write_log[i].n = len(write_log[i].buf)

\* The edits that were split off another edit by pre_process, as prepare()
\* linked them to their parents before the links were inverted.
SplitEdits(t) ==
    {j \in 1..Len(before[t].edits) : before[t].edits[j].index.k = "Parent"}

\* C33: after prepare() every edit that another was split off, the edit of
\* the caller included, has a Child link to the edit split off it, the last
\* edit of a chain has no Child link, and no edit has its deref flag set.
C33_AncestorsLinkForward ==
    \A t \in Txs :
        state[t] = "Prepared" =>
            /\ \A j \in SplitEdits(t) :
                  updates[t][before[t].edits[j].index.i].index = Child(j)
            /\ \A i \in 1..NumEdits(t) :
                  /\ ~updates[t][i].update.deref
                  /\ (\A j \in SplitEdits(t) : before[t].edits[j].index.i # i) =>
                         updates[t][i].index.k # "Child"

\* lock_ref_and_apply_change goes on for the edit at the cursor with the lock
\* it has just taken.
AppliesWithLock(t) == pc[t] = "apply" /\ pc'[t] # "apply"

Locked(t) == {i \in 1..NumEdits(t) : updates[t][i].lock}

\* C37: an Open transaction that no method runs on holds no lock; prepare()
\* asks for the lock of an edit only while the edit has none; after prepare()
\* every edit, split edits included, has its lock, each of another lock file
\* that exists; commit() finds the lock of every edit it comes to; after
\* commit() no edit has a lock and no lock file is left.
C37_LockDiscipline ==
    \A t \in Txs :
        /\ pc[t] = "open" => Locked(t) = {} /\ Held(t) = {}
        /\ pc[t] = "read" => ~Current(t).lock
        /\ pc[t] \in {"read", "acquire"} => Locked(t) = 1..(cursor[t] - 1)
        /\ pc[t] = "prepared" =>
              /\ Locked(t) = 1..NumEdits(t)
              /\ \A i, j \in 1..NumEdits(t) :
                    /\ lockfiles[updates[t][i].update.name] # Absent
                    /\ i # j => updates[t][i].update.name # updates[t][j].update.name
        /\ pc[t] \in {"commit_update", "rm_reflog"} => Current(t).lock
        /\ pc[t] = "committed" =>
              /\ Locked(t) = {} /\ Held(t) = {}
              /\ \A i \in 1..NumEdits(t) :
                    lockfiles[updates[t][i].update.name] = Absent

\* commit() returned for a deletion that was split: the edit of the caller
\* and the edit split off it were locked by prepare() and are unlocked.
C37_Witness ==
    /\ pc[1] = "committed"
    /\ NumEdits(1) = 2
    /\ updates[1][2].index.k = "Parent"
    /\ Locked(1) = {}
    /\ lockfiles = [n \in Names |-> Absent]

\* The range of the chunk with the given id, for chunks of the size and the
\* number of counts of the run: lo..hi, counted from 0, hi excluded.
RangeOf(chunk_id) ==
    [lo |-> chunk_id * chunks.iter.size,
     hi |-> Min({(chunk_id + 1) * chunks.iter.size, Len(counts)})]

\* The entry stage has chunked the counts, with a chunk size of at least one.
Chunked == pack_pc \notin {"none", "start"} /\ chunks.iter.size >= 1

\* The entries of a chunk are the counts of its range, in order.
EntriesOfRange(chunk_id, entries) ==
    /\ Len(entries) = RangeOf(chunk_id).hi - RangeOf(chunk_id).lo
    /\ \A j \in 1..Len(entries) : entries[j] = RangeOf(chunk_id).lo + j

\* C35: for n counts and a chunk size s >= 1, the i-th chunk taken (from 0) is
\* tagged with ChunkId i and is the range i*s .. min((i+1)*s, n), which has
\* between 1 and s counts and fewer than s only if it ends at n: the chunks
\* are contiguous, do not overlap, ascend and cover 0..n when the iterator is
\* at its end; no chunk is taken of no counts.
C35_ChunksCoverInOrder ==
    /\ [](Chunked =>
            /\ chunks.iter.cursor = Min({chunks.index * chunks.iter.size, Len(counts)})
            /\ chunks.index <= ChunksToCoverAll(chunks.iter)
            /\ ~Chunks_next(chunks.iter).some => chunks.iter.cursor = Len(counts)
            /\ Len(counts) = 0 => chunks.index = 0
            /\ \A w \in 1..MaxThreads :
                  workers[w].st = "busy" =>
                      /\ workers[w].chunk_id < chunks.index
                      /\ workers[w].lo = RangeOf(workers[w].chunk_id).lo
                      /\ workers[w].hi = RangeOf(workers[w].chunk_id).hi
                      /\ workers[w].hi - workers[w].lo \in 1..chunks.iter.size
                      /\ workers[w].hi - workers[w].lo < chunks.iter.size
                            => workers[w].hi = Len(counts)
                      /\ \A v \in 1..MaxThreads :
                            (v # w /\ workers[v].st = "busy")
                                => workers[v].chunk_id # workers[w].chunk_id
            /\ \A i \in 1..Len(channel) :
                  channel[i].ok => EntriesOfRange(channel[i].chunk_id, channel[i].entries)
            /\ \A c \in pending : EntriesOfRange(c.chunk_id, c.entries))
    /\ [][(Chunked /\ chunks'.index # chunks.index) =>
            /\ chunks'.index = chunks.index + 1
            /\ \E w \in 1..MaxThreads :
                  /\ workers[w].st = "idle"
                  /\ workers'[w] = [st |-> "busy", chunk_id |-> chunks.index,
                                    lo |-> chunks.iter.cursor,
                                    hi |-> chunks'.iter.cursor]]_vars

\* Three counts in chunks of two: the second chunk, of one count, is taken.
C35_Witness ==
    /\ Chunked
    /\ chunks.iter.size = 2
    /\ Len(counts) = 3
    /\ \E w \in 1..MaxThreads :
          workers[w] = [st |-> "busy", chunk_id |-> 1, lo |-> 2, hi |-> 3]
    /\ \E c \in pending : c.chunk_id = 0 /\ c.entries = <<1, 2>>

\* The entries written to `out`.
EntriesWritten == Cardinality({i \in 1..Len(output) : output[i].k = "entry"})

\* The entries of the chunks that the serializer holds back.
RECURSIVE EntriesPending(_)
EntriesPending(held) ==
    IF held = {} THEN 0
    ELSE LET c == CHOOSE x \in held : TRUE
         IN  Len(c.entries) + EntriesPending(held \ {c})

\* C36: a chunk that has no error has one entry for each of its counts, and
\* counts each of them once: as copied if it can be copied from its pack, as
\* decoded and recompressed if not. The total has counted every entry that was
\* fed to the reducer, and when a run ends without error, copied + decoded =
\* the number of counts = the entries written = the count in the header.
C36_EveryCountOnce ==
    /\ \A i \in 1..Len(channel) :
          channel[i].ok =>
              LET r == RangeOf(channel[i].chunk_id) IN
              /\ Len(channel[i].entries) = r.hi - r.lo
              /\ channel[i].stats.objects_copied_from_pack
                    = CountOf(counts, r.lo, r.hi, "copy")
              /\ channel[i].stats.decoded_and_recompressed_objects
                    = CountOf(counts, r.lo, r.hi, "decode")
              /\ channel[i].stats.objects_copied_from_pack
                    + channel[i].stats.decoded_and_recompressed_objects
                    = Len(channel[i].entries)
    /\ pack_pc \notin {"none", "start"} =>
          total.objects_copied_from_pack + total.decoded_and_recompressed_objects
              = EntriesWritten + EntriesPending(pending)
    /\ pack_pc \in {"flush", "done"} =>
          /\ total.objects_copied_from_pack + total.decoded_and_recompressed_objects
                = Len(counts)
          /\ total.objects_copied_from_pack = CountOf(counts, 0, Len(counts), "copy")
          /\ total.decoded_and_recompressed_objects
                = CountOf(counts, 0, Len(counts), "decode")
          /\ EntriesWritten = Len(counts)
          /\ output[1] = Header(Len(counts))

\* Three counts in three chunks, two copied and one decoded, all written.
C36_Witness ==
    /\ pack_pc = "done"
    /\ counts = <<"copy", "decode", "copy">>
    /\ chunks.index = 3
    /\ total = Outcome(1, 2)
    /\ EntriesWritten = 3

\* The loop of create() is over: the trailer was written, or an error came.
LoopOver == pack_pc \in {"flush", "done", "failed", "flush_failed"}

\* C39: whatever chunk size and thread limit are asked for, the chunk size in
\* use is at least 1, every chunk taken moves the cursor of the chunk iterator
\* forward, and the consumer gets to the end of the chunks or to an error.
C39_EntryStageFinishes ==
    /\ [](pack_pc \notin {"none", "start"} => chunks.iter.size >= 1)
    /\ [][chunks'.index # chunks.index
              => chunks'.iter.cursor > chunks.iter.cursor]_vars
    /\ <>LoopOver

\* No two edits are splits of the same edit: pre_process splits an edit once.
SplitOnce(changes) ==
    \A i, j \in 1..Len(changes) :
        (i # j /\ changes[i].index.k = "Parent" /\ changes[j].index.k = "Parent")
            => changes[i].index.i # changes[j].index.i

\* What is left for invert_parent_links to do: it gets less with every step.
InvertMeasure ==
    LET n == Len(inversion.given) + 2 IN
    CASE inversion.pc = "call" -> n * n
      [] inversion.pc = "loop" -> inversion.leaf_cursor_index * n
      [] inversion.pc = "walk" ->
            inversion.leaf_cursor_index * n + inversion.parent_idx_cursor[1]
      [] OTHER -> 0

\* The call came to no unreachable!() and visited no edit twice as a parent.
InvertedInOrder ==
    /\ inversion.pc \notin Unreachable
    /\ \A i \in 1..Len(inversion.visits) : inversion.visits[i] <= 1

\* The call ends, and a list without a split comes back as it was given.
InvertTerminates ==
    /\ [][inversion' # inversion => InvertMeasure' < InvertMeasure]_vars
    /\ [](inversion.pc = "returned" =>
             /\ inversion.changes = invert_parent_links(inversion.given).changes
             /\ (\A i \in 1..Len(inversion.given) :
                     inversion.given[i].index = NoIndex)
                    => inversion.changes = inversion.given)

SignedWholeMinutes(t) ==
    /\ t.offset % 60 = 0
    /\ t.offset > -25 * SECONDS_PER_HOUR
    /\ t.offset < 25 * SECONDS_PER_HOUR
    /\ t.offset > 0 => t.sign = Plus
    /\ t.offset < 0 => t.sign = Minus

\* The whole hours of an offset, and the whole minutes over them.
HoursOf(offset) ==
    IF offset < 0 THEN -div(offset, SECONDS_PER_HOUR) ELSE offset \div SECONDS_PER_HOUR
MinutesOf(offset) ==
    IF offset < 0
    THEN -div(offset + HoursOf(offset) * SECONDS_PER_HOUR, 60)
    ELSE (offset % SECONDS_PER_HOUR) \div 60

\* The bytes are "<t> <s>HHMM": the seconds, a space, '+' or '-' as the sign
\* flag says, two digits of hours and two digits of minutes.
WrittenAsTime(t, out) ==
    /\ find_byte(out, SP) >= 0
    /\ take(out, find_byte(out, SP)) = decimal(t.time)
    /\ len(skip(out, find_byte(out, SP) + 1)) = 5
    /\ byte_at(skip(out, find_byte(out, SP) + 1), 0)
          = (IF t.sign = Plus THEN "+" ELSE "-")
    /\ number(take(skip(out, find_byte(out, SP) + 2), 2))
          = HoursOf(t.offset)
    /\ number(skip(out, find_byte(out, SP) + 4))
          = MinutesOf(t.offset)

\* The time was written as specified and read back as it was.
RoundTrip ==
    /\ time_io.pc \notin {"panicked", "rejected"}
    /\ time_io.pc \in {"written", "read"}
          => WrittenAsTime(time_io.time, time_io.written[1])
    /\ time_io.pc = "read" => time_io.parsed = SomeOf(time_io.time)

\* C31 (as stated): every time (t, off, sign) is written as "<t> <s>HHMM",
\* with s from the sign flag alone and two digits each for HH and MM, and
\* reading that gives the same (t, off, sign), (t, 0, Minus) being written
\* with -0000 and read back with Minus.
C31_TimeRoundTrip ==
    time_io.pc \notin {"none", "new"} => RoundTrip

\* C31 (amended): the same for the times whose offset is of whole minutes, of
\* less than 25 hours and of the sign of the flag; and whatever was written of
\* an offset other than i32::MIN has the specified form, as the times of the
\* tests have.
C31_TimeRoundTripOfSignedWholeMinutes ==
    /\ (time_io.pc \notin {"none", "new"} /\ SignedWholeMinutes(time_io.time))
          => RoundTrip
    /\ (time_io.pc \in {"written", "read", "rejected"}
            /\ time_io.time.offset # I32_MIN)
          => WrittenAsTime(time_io.time, time_io.written[1])
    /\ (time_io.pc = "written" /\ time_io.time = Time(500, 9000, Plus))
          => time_io.written[1]
                = bytes(<<"5", "0", "0", SP, "+", "0", "2", "3", "0">>)
    /\ (time_io.pc = "written" /\ time_io.time = Time(189009009, 36000, Minus))
          => time_io.written[1]
                = bytes(<<"1", "8", "9", "0", "0", "9", "0", "0", "9", SP,
                          "-", "1", "0", "0", "0">>)

\* The time 0 with offset 0 and Minus was written as "0 -0000" and read back.
C31_Witness ==
    /\ time_io.pc = "read"
    /\ time_io.time = Time(0, 0, Minus)
    /\ time_io.written = SomeOf(bytes(<<"0", SP, "-", "0", "0", "0", "0">>))
    /\ time_io.parsed = SomeOf(Time(0, 0, Minus))

\* The message of the line is glued to the time zone: there is no separator,
\* and the message starts with a byte that is no whitespace.
Glued(p) ==
    ~p.sep /\ ~is_empty(p.message) /\ ~is_ascii_whitespace(byte_at(p.message, 0))

\* The record of a line, whether it ends with a line feed or not.
RecordOf(p) ==
    Line(p.old, NULL_SHA1, Signature(one_name, foo_example_com, p.time), p.message)

\* The lines from the k-th on.
LinesFrom(ps, k) == SubSeq(ps, k, Len(ps))

\* C32: a line is read as the same record with and without a line feed at its
\* end, and reading it takes the line and its line feed off the input, so
\* that the next line is read from what is left; a line without a message is
\* read with an empty message, with and without the separator and the line
\* feed; a message that is glued to the time zone is rejected.
C32_LinesReadOneByOne ==
    log_io.pc # "none" =>
        /\ Len(log_io.lines) <= Len(log_io.made_of)
        /\ \A k \in 1..Len(log_io.lines) :
              /\ ~Glued(log_io.made_of[k])
              /\ log_io.lines[k] = RecordOf(log_io.made_of[k])
        /\ log_io.pc # "failed" =>
              log_io.remainder
                  = LinesBytes(LinesFrom(log_io.made_of, Len(log_io.lines) + 1))
        /\ log_io.pc = "failed" =>
              /\ Glued(log_io.made_of[Len(log_io.lines) + 1])
              /\ log_io.context
                    = "log message must be separated from signature with whitespace"
        /\ log_io.pc = "end" => Len(log_io.lines) = Len(log_io.made_of)
        /\ log_io.pc = "reading" => Len(log_io.lines) < Len(log_io.made_of)

\* Two lines were read: the first has the separator and no message, the
\* second has a message and no line feed.
C32_Witness ==
    /\ log_io.pc = "end"
    /\ Len(log_io.made_of) = 2
    /\ log_io.made_of[1].sep /\ is_empty(log_io.made_of[1].message)
    /\ ~log_io.made_of[2].newline
    /\ Len(log_io.lines) = 2
    /\ log_io.lines[1].message = <<>>
    /\ log_io.lines[2].message = hello
    /\ log_io.lines[1].signature.time = Time(1234567890, 0, Minus)
    /\ is_empty(log_io.remainder)

====
